---- MODULE Spec2Model ----
\* Model of the coordination layer of examples/distributed_training_demo.py:
\* the DistributedSimulator message fabric (send / receive / all_reduce_sum),
\* the sequential ring all-reduce simulation and the ParameterServer store.
EXTENDS Integers, Sequences, FiniteSets, TLC

\* ---------------------------------------------------------------- bounds
\* Largest world size explored (the source takes world_size as a parameter).
MaxWorld == 3
\* World size of the runs driven by free clients (fabric, parameter server).
FreeWorld == 2
\* Number of send() calls the free fabric environment issues.
MaxSends == 3
\* Number of receive() calls the free fabric environment issues.
MaxRecvs == 3
\* Length of the vectors handed to all_reduce_sum.
VecLen == 2
\* Largest entry of an input vector.
MaxVal == 1
\* Largest gradient_size of the ring all-reduce.
MaxGradientSize == 4
\* Number of update() calls issued to the parameter server.
MaxUpdates == 3
\* Largest learning rate of a run (rates are whole numbers here).
MaxLr == 2
\* Number of epochs of the data-parallel training loop.
MaxEpochs == 2
\* Number of clients of the federated run.
MaxClients == 2
\* Largest number of samples a federated client holds.
MaxSamples == 3
\* The two values a locally trained parameter may take.
LowParam == 2
HighParam == 10
\* Number of communication rounds of the federated run.
MaxRounds == 2
\* Number of broadcast() calls issued.
MaxBcasts == 2
\* Largest number of samples of a partitioned dataset.
MaxNSamples == 6
\* Largest seed, and largest state of the random generator.
MaxSeed == 7
\* Largest length of a vector that is cut into chunks.
MaxVectorLength == 12
\* Number of local training steps of a client in a round.
MaxLocalEpochs == 2
\* Number of all_reduce_sum calls every rank makes one after the other.
MaxCalls == 2
\* Number of receive() calls that may be nested inside one another (the
\* interpreter's recursion limit, scaled down).
RecursionLimit == 2

\* receive(rank, source_rank=-1): the default "any source".
AnySource == -1
\* Value of a slot that holds nothing (Python None / unbound local).
None == <<>>

VARIABLES
    world_size,   \* DistributedSimulator.world_size
    queues,       \* DistributedSimulator.queues: rank -> FIFO of <<source, data>>
    rpc,          \* per rank: position inside receive(): "idle", "get", "put"
    rsrc,         \* per rank: the source_rank argument of the latest receive() call
    held,         \* per rank: the (source, data) pair a get() handed out
    ret,          \* per rank: the data the last receive() returned
    receiver,     \* the rank whose receive() calls the fabric environment drives
    ncalls,       \* number of receive() calls issued by the fabric environment
    clock,        \* number of send() calls issued by the fabric environment
    sentTo,       \* per rank: the set of messages ever put into its mailbox by send()
    delivered,    \* per rank: log of <<source, data, source_rank argument>>, one
                  \* entry per receive() call that returned, in order of return
    pc,           \* per rank: position inside all_reduce_sum
    local_data,   \* per rank: the local_data argument of all_reduce_sum
    total,        \* rank 0's accumulator in all_reduce_sum
    total_obj,    \* the array object total is bound to
    loop_r,       \* rank 0's loop variable r (gather loop, then broadcast loop)
    ar_result,    \* per rank: the value all_reduce_sum returned
    gradient_size, \* example_ring_allreduce: length of every gradient
    gradients,    \* example_ring_allreduce: per rank, the input gradient
    intermediate, \* example_ring_allreduce: per rank, the reduce-scatter buffer
    result,       \* example_ring_allreduce: per rank, the all-gather buffer
    phase,        \* example_ring_allreduce: the loop nest being executed
    step,         \* example_ring_allreduce: outer loop variable
    rank_i,       \* example_ring_allreduce: inner loop variable (rank)
    transfers,    \* number of chunk transfers (inner loop bodies) executed so far
    at_step,      \* example_ring_allreduce: the buffers as the current outer step found them
    params,       \* ParameterServer.params: name -> array
    version,      \* ParameterServer.version
    update_count, \* ParameterServer.update_count
    lr_run,       \* example_parameter_server: the lr every update() call is given
    fetched,      \* per worker: the version its last get_parameters() returned
    snapshot,     \* per worker: the dict its last get_parameters() returned,
                  \* name -> the array object the name is bound to
    seen,         \* per worker: the contents of that dict when it was returned
    n_updates,    \* number of update() calls the workers have issued
    grad_sum,     \* name -> entrywise sum of the gradients of the update() calls that returned
    models,       \* example_data_parallel_training: per rank, the model's arrays
    local_gradients, \* the list of the grads dicts computed in the current epoch
    global_gradients, \* the dict of the averaged gradients
    epoch,        \* loop variable of the training loop
    dp_pc,        \* the statement of the training loop being executed
    dp_rank,      \* loop variable of the inner loops (rank / position in models)
    n_computed,   \* per rank: number of backward() calls made for it
    n_applied,    \* per rank: number of apply_gradients() calls made on its model
    applied,      \* per rank: the grads argument of its last apply_gradients()
    client_data,  \* example_federated_learning: per client, len(y_client)
    global_W,     \* the global model's W
    global_b,     \* the global model's b
    round_num,    \* loop variable of the communication rounds
    fed_pc,       \* the statement of the round being executed
    client_id,    \* loop variable of the client loop
    client_models, \* the list of the (W, b) pairs the clients trained
    client_weights, \* the list of the clients' sample counts
    bc_pc,        \* position inside broadcast(): "idle" or "loop"
    bc_root,      \* the root_rank argument of the latest broadcast() call
    bc_data,      \* the data argument of the latest broadcast() call
    bc_rank,      \* broadcast's loop variable rank
    bc_ret,       \* the value the last broadcast() returned (0: none has returned)
    bcasts,       \* log of the broadcast() calls made: <<root_rank, data>>
    error,        \* the exception the last failed call raised ("none": no call failed)
    n_samples,    \* number of samples of the dataset
    partitions,   \* the list of the partitions made so far, <<start, end>> each
    part_pc,      \* the statement of the partitioned run being executed
    part_rank,    \* loop variable rank of the partitioning loop
    rounds_run,   \* number of training rounds run on the partitions
    seed,         \* the argument of np.random.seed
    run,          \* two executions of the data-parallel example, side by side
    ps_pc,        \* example_parameter_server: position of the training loop
    ps_epoch,     \* example_parameter_server: loop variable epoch
    ps_rank,      \* example_parameter_server: loop variable rank
    wpc,          \* example_parameter_server: per worker, position inside the loop body
    wgrad,        \* example_parameter_server: per worker, the gradients it computed
    chunks,       \* the chunk bounds <<start, end>> computed so far, by chunk index
    chunk_i,      \* the next chunk index
    depth,        \* per rank: the number of receive() calls nested inside its receive() call
    stalled,      \* the rank that never calls all_reduce_sum (-1: every rank calls it)
    calls,        \* per rank: the number of all_reduce_sum calls it has made and left behind
    returns,      \* per rank: the values its earlier all_reduce_sum calls returned, in order
    local_W,      \* example_federated_learning: the client's W
    local_b,      \* example_federated_learning: the client's b
    local_obj,    \* example_federated_learning: the array object the client's W is bound to
    local_epoch   \* example_federated_learning: local training steps taken by the client

fabricVars == <<queues, rpc, rsrc, held, ret, receiver, ncalls, clock, sentTo, delivered>>
arVars == <<pc, local_data, total, total_obj, loop_r, ar_result>>
ringVars == <<gradient_size, gradients, intermediate, result, phase, step, rank_i,
              transfers, at_step>>
\* the variables of the coordinators and of broadcast, which send and receive
\* never touch
psVars == <<params, version, update_count, lr_run, fetched, snapshot, seen, n_updates, grad_sum>>
dpVars == <<models, local_gradients, global_gradients, epoch, dp_pc, dp_rank, n_computed,
            n_applied, applied>>
fedVars == <<client_data, global_W, global_b, round_num, fed_pc, client_id, client_models,
             client_weights>>
bcVars == <<bc_pc, bc_root, bc_data, bc_rank, bc_ret, bcasts>>
errVars == <<error>>
\* the variables of the parts of the program modelled further below
partVars == <<n_samples, partitions, part_pc, part_rank, rounds_run>>
detVars == <<seed, run>>
psLoopVars == <<ps_pc, ps_epoch, ps_rank, wpc, wgrad>>
chunkVars == <<chunks, chunk_i>>
frameVars == <<depth>>
stallVars == <<stalled>>
roundsVars == <<calls, returns>>
fedLocalVars == <<local_W, local_b, local_obj, local_epoch>>
extVars == <<partVars, detVars, psLoopVars, chunkVars, frameVars, stallVars, roundsVars, fedLocalVars>>
\* the variables of the coordinators and of broadcast
coordVars == <<ringVars, psVars, dpVars, fedVars, bcVars, extVars>>
restVars == <<coordVars, errVars>>
vars == <<world_size, fabricVars, arVars, restVars>>

Ranks == 0 .. world_size - 1

\* (variant of range_next: every second value is left out)
range_skip(i) == i + 2
\* for ... in range(n): the value after i
range_next(i) == i + 1

\* ------------------------------------------------------- numeric vectors
\* The input vectors explored: the vectors of length n with at most one entry
\* that is not zero (the operations modelled are additions and copies of index
\* ranges, so these inputs tell every index and every rank apart).
VectorsOfLen(n) ==
    {[i \in 1 .. n |-> IF i = k THEN v ELSE 0] : k \in 1 .. n, v \in 0 .. MaxVal}

Vectors == VectorsOfLen(VecLen)

\* (variant of VecAdd: the accumulator is overwritten, total = data)
VecAssign(a, b) == b
\* numpy elementwise a += b: b has the length of a, or length 1 and is then
\* added to every entry of a
VecAdd(a, b) == [i \in DOMAIN a |-> a[i] + b[IF Len(b) = 1 THEN 1 ELSE i]]

\* a += b is possible: b can be broadcast to the shape of a
Broadcastable(a, b) == Len(b) = Len(a) \/ Len(b) = 1

\* --------------------------------------------------------- queue helpers
\* multiprocessing.Queue.put: append at the tail
QueuePut(q, item) == Append(q, item)

SeqToSet(q) == {q[i] : i \in DOMAIN q}

\* ------------------------------------------------- DistributedSimulator
\* __init__: one empty queue per rank
InitFabric ==
    /\ queues = [r \in Ranks |-> <<>>]
    /\ rpc = [r \in Ranks |-> "idle"]
    /\ rsrc = [r \in Ranks |-> AnySource]
    /\ held = [r \in Ranks |-> None]
    /\ ret = [r \in Ranks |-> None]
    /\ ncalls = 0
    /\ clock = 0
    /\ sentTo = [r \in Ranks |-> {}]
    /\ delivered = [r \in Ranks |-> <<>>]

\* (variant of send: the pair is put at the head of the queue)
sendFirst(data, source_rank, dest_rank) ==
    /\ queues' = [queues EXCEPT ![dest_rank] = <<<<source_rank, data>>>> \o @]
    /\ sentTo' = [sentTo EXCEPT ![dest_rank] = @ \cup {<<source_rank, data>>}]
\* send(data, source_rank, dest_rank): queues[dest_rank].put((source_rank, data))
send(data, source_rank, dest_rank) ==
    /\ queues' = [queues EXCEPT ![dest_rank] = QueuePut(@, <<source_rank, data>>)]
    /\ sentTo' = [sentTo EXCEPT ![dest_rank] = @ \cup {<<source_rank, data>>}]

\* the caller enters receive(rank, source_rank): the next step is queues[rank].get()
CallReceive(f, rank, source_rank) == [f EXCEPT ![rank] = "get"]

\* (variant of RecvGet: the message at the head is returned whoever sent it)
RecvGetAny(rank) ==
    /\ rpc[rank] = "get"
    /\ Len(queues[rank]) > 0
    /\ LET msg == Head(queues[rank])
       IN  /\ queues' = [queues EXCEPT ![rank] = Tail(@)]
           /\ rpc' = [rpc EXCEPT ![rank] = "idle"]
           /\ ret' = [ret EXCEPT ![rank] = msg[2]]
           /\ delivered' = [delivered EXCEPT
                               ![rank] = Append(@, <<msg[1], msg[2], rsrc[rank]>>)]
           /\ UNCHANGED held
    /\ UNCHANGED <<rsrc, clock, sentTo>>

\* receive, line 39-40 and 43: get() blocks on an empty queue; a message that
\* passes the filter is returned, any other is kept in hand for the put of line 41
RecvGet(rank) ==
    /\ rpc[rank] = "get"
    /\ Len(queues[rank]) > 0
    /\ LET msg == Head(queues[rank])
       IN  /\ queues' = [queues EXCEPT ![rank] = Tail(@)]
           /\ IF rsrc[rank] # AnySource /\ msg[1] # rsrc[rank]
              THEN /\ held' = [held EXCEPT ![rank] = msg]
                   /\ rpc' = [rpc EXCEPT ![rank] = "put"]
                   /\ UNCHANGED <<ret, delivered>>
              ELSE /\ rpc' = [rpc EXCEPT ![rank] = "idle"]
                   /\ ret' = [ret EXCEPT ![rank] = msg[2]]
                   /\ delivered' = [delivered EXCEPT
                                       ![rank] = Append(@, <<msg[1], msg[2], rsrc[rank]>>)]
                   /\ UNCHANGED held
    /\ UNCHANGED <<rsrc, clock, sentTo>>

\* (variant of RecvPut: the skipped message is not put back)
RecvPutDrop(rank) ==
    /\ rpc[rank] = "put"
    /\ rpc' = [rpc EXCEPT ![rank] = "get"]
    /\ held' = [held EXCEPT ![rank] = None]
    /\ UNCHANGED <<queues, rsrc, ret, clock, sentTo, delivered>>

\* receive, line 41-42: the skipped message goes back to the tail of the queue and
\* receive calls itself, i.e. the next step is get() again
RecvPut(rank) ==
    /\ rpc[rank] = "put"
    /\ queues' = [queues EXCEPT ![rank] = QueuePut(@, held[rank])]
    /\ rpc' = [rpc EXCEPT ![rank] = "get"]
    /\ held' = [held EXCEPT ![rank] = None]
    /\ UNCHANGED <<rsrc, ret, clock, sentTo, delivered>>

\* the parts of the state a run does not use
NoAllReduce ==
    /\ pc = [r \in Ranks |-> "unused"]
    /\ local_data = [r \in Ranks |-> None]
    /\ total = None
    /\ total_obj = "none"
    /\ loop_r = 0
    /\ ar_result = [r \in Ranks |-> None]

NoRing ==
    /\ gradient_size = 0
    /\ gradients = None
    /\ intermediate = None
    /\ result = None
    /\ phase = "unused"
    /\ step = 0
    /\ rank_i = 0
    /\ transfers = 0
    /\ at_step = None

NoParameterServer ==
    /\ params = None
    /\ version = 0
    /\ update_count = 0
    /\ lr_run = 0
    /\ fetched = None
    /\ snapshot = None
    /\ seen = None
    /\ n_updates = 0
    /\ grad_sum = None

NoDataParallel ==
    /\ models = None
    /\ local_gradients = <<>>
    /\ global_gradients = None
    /\ epoch = 0
    /\ dp_pc = "unused"
    /\ dp_rank = 0
    /\ n_computed = None
    /\ n_applied = None
    /\ applied = None

NoFederated ==
    /\ client_data = None
    /\ global_W = None
    /\ global_b = None
    /\ round_num = 0
    /\ fed_pc = "unused"
    /\ client_id = 0
    /\ client_models = <<>>
    /\ client_weights = <<>>

NoBroadcast ==
    /\ bc_pc = "unused"
    /\ bc_root = 0
    /\ bc_data = 0
    /\ bc_rank = 0
    /\ bc_ret = 0
    /\ bcasts = <<>>

NoError ==
    /\ error = "none"

NoPartition ==
    /\ n_samples = 0
    /\ partitions = <<>>
    /\ part_pc = "unused"
    /\ part_rank = 0
    /\ rounds_run = 0

NoRuns ==
    /\ seed = 0
    /\ run = <<>>

NoPSLoop ==
    /\ ps_pc = "unused"
    /\ ps_epoch = 0
    /\ ps_rank = 0
    /\ wpc = None
    /\ wgrad = None

NoChunks ==
    /\ chunks = <<>>
    /\ chunk_i = 0

NoFrames ==
    /\ depth = [r \in Ranks |-> 0]

NoStall ==
    /\ stalled = -1

NoRounds ==
    /\ calls = None
    /\ returns = None

NoFedLocal ==
    /\ local_W = None
    /\ local_b = None
    /\ local_obj = "none"
    /\ local_epoch = 0

\* ------------------------------------------ the fabric used by free clients
\* Any rank may send to any rank and any idle rank may start a plain or a
\* selective receive; payloads are the send's sequence number, so the payload
\* order is the order in which the messages were sent.
InitFree ==
    /\ world_size = FreeWorld
    /\ InitFabric
    /\ NoFedLocal
    /\ NoRounds
    /\ NoStall
    /\ NoFrames
    /\ NoChunks
    /\ NoPSLoop
    /\ NoRuns
    /\ NoPartition
    /\ NoError
    /\ receiver \in Ranks
    /\ NoAllReduce
    /\ NoRing
    /\ NoParameterServer
    /\ NoDataParallel
    /\ NoFederated
    /\ NoBroadcast

FreeSend(source_rank, dest_rank) ==
    /\ clock < MaxSends
    /\ clock' = clock + 1
    /\ send(clock + 1, source_rank, dest_rank)
    /\ UNCHANGED <<world_size, restVars, receiver, rpc, rsrc, held, ret, ncalls, delivered,
                   arVars>>

FreeCallReceive(rank, source_rank) ==
    /\ rank = receiver
    /\ rpc[rank] = "idle"
    /\ ncalls < MaxRecvs
    /\ ncalls' = ncalls + 1
    /\ rpc' = CallReceive(rpc, rank, source_rank)
    /\ rsrc' = [rsrc EXCEPT ![rank] = source_rank]
    /\ UNCHANGED <<world_size, restVars, receiver, queues, held, ret, clock, sentTo,
                   delivered, arVars>>

FreeRecvGet(rank) == RecvGet(rank) /\ UNCHANGED <<world_size, restVars, receiver, ncalls, arVars>>

FreeRecvPut(rank) == RecvPut(rank) /\ UNCHANGED <<world_size, restVars, receiver, ncalls, arVars>>

NextFree ==
    \/ \E s \in Ranks, d \in Ranks : FreeSend(s, d)
    \/ \E r \in Ranks, s \in Ranks \cup {AnySource} : FreeCallReceive(r, s)
    \/ \E r \in Ranks : FreeRecvGet(r)
    \/ \E r \in Ranks : FreeRecvPut(r)

SpecFree == InitFree /\ [][NextFree]_vars

\* ---- properties of the mailbox (checked under SpecFree)
\* the message a receive() holds between its get() and its put()
InHand(rank) == IF rpc[rank] = "put" THEN {held[rank]} ELSE {}

\* the messages handed out by returned receive() calls
Returned(rank) == {<<delivered[rank][i][1], delivered[rank][i][2]>> :
                       i \in DOMAIN delivered[rank]}

\* q is in send order (payloads are send sequence numbers)
InSendOrder(q) == \A i, j \in DOMAIN q : i < j => q[i][2] < q[j][2]

\* C3: successive receive(D, from=S) calls return S's payloads in the order S
\* sent them, whatever other sends and receives on D happen in between.
C3_FifoPerSource ==
    \A d \in Ranks : \A i, j \in DOMAIN delivered[d] :
        (/\ i < j
         /\ delivered[d][i][3] = delivered[d][i][1]
         /\ delivered[d][j][3] = delivered[d][j][1]
         /\ delivered[d][i][1] = delivered[d][j][1])
        => delivered[d][i][2] < delivered[d][j][2]

\* C4: a selective receive never loses (or duplicates) a message: at every rank
\* the messages sent to it are exactly those still queued, the one in the hand of
\* a running receive and the ones returned, each once; a mailbox whose rank is not
\* receiving holds exactly what was sent to it, in send order.
C4_ReceiveLosesNothing ==
    \A d \in Ranks :
        /\ SeqToSet(queues[d]) \cup InHand(d) \cup Returned(d) = sentTo[d]
        /\ Len(queues[d]) + Cardinality(InHand(d)) + Len(delivered[d])
               = Cardinality(sentTo[d])
        /\ d # receiver =>
               /\ InSendOrder(queues[d])
               /\ SeqToSet(queues[d]) = sentTo[d]

\* a selective receive returned after it had skipped (and re-queued) a message
C4_Witness ==
    \E d \in Ranks :
        /\ rpc[d] = "idle" /\ rsrc[d] # AnySource /\ delivered[d] # <<>>
        /\ \E i \in DOMAIN queues[d] : queues[d][i][2] < ret[d]
        /\ \E e \in Ranks \ {d} : queues[e] # <<>>

\* C5: after a selective receive has returned, the messages remaining in the
\* mailbox are in the same relative order as before the call; messages arrive in
\* send order, so the mailbox of a rank that is between calls is in send order.
C5_OrderKept ==
    \A d \in Ranks : rpc[d] = "idle" => InSendOrder(queues[d])

\* C6: a receive without source filter returns the oldest message of the
\* mailbox: no message still queued was sent before the one it returned.
C6_PlainReceiveOldest ==
    \A d \in Ranks :
        (rpc[d] = "idle" /\ rsrc[d] = AnySource /\ delivered[d] # <<>>)
        => \A i \in DOMAIN queues[d] : ret[d] < queues[d][i][2]

\* C7: receive(rank, from=X) suspends while the mailbox holds no message from X:
\* it takes no message out of the mailbox unless one from X is there to return.
C7_SuspendsWithoutMatch ==
    \A d \in Ranks :
        rpc[d] = "put" => \E i \in DOMAIN queues[d] : queues[d][i][1] = rsrc[d]

\* ------------------------------------------------------- all_reduce_sum
\* Every rank of the world calls all_reduce_sum(local_data, rank) once, each in
\* its own process; a step is one queue operation (put or get) together with the
\* local statements that follow it.
InitAllReduce ==
    /\ world_size \in 2 .. MaxWorld
    /\ InitFabric
    /\ NoFedLocal
    /\ NoRounds
    /\ NoStall
    /\ NoFrames
    /\ NoChunks
    /\ NoPSLoop
    /\ NoRuns
    /\ NoPartition
    /\ NoError
    /\ receiver = 0
    /\ pc = [r \in Ranks |-> "start"]
    /\ local_data \in [Ranks -> Vectors]
    /\ total = None
    /\ total_obj = "none"
    /\ loop_r = 0
    /\ ar_result = [r \in Ranks |-> None]
    /\ NoRing
    /\ NoParameterServer
    /\ NoDataParallel
    /\ NoFederated
    /\ NoBroadcast

\* (variant of GatherLast: the loops stop one rank early)
GatherLastShort == world_size - 2
\* range(1, world_size): the last of the ranks rank 0 gathers from and
\* broadcasts to
GatherLast == world_size - 1

\* (variant of local_data_copy: total is bound to the caller's array itself)
local_data_itself == "local_data"
\* line 56, local_data.copy(): a new array with the caller's values
local_data_copy == "copy"

\* line 55-58, rank 0: total = local_data.copy(), then receive(0, 1) is entered
RootStart ==
    /\ pc[0] = "start"
    /\ total' = local_data[0]
    /\ total_obj' = local_data_copy
    /\ loop_r' = 1
    /\ rpc' = CallReceive(rpc, 0, 1)
    /\ rsrc' = [rsrc EXCEPT ![0] = 1]
    /\ pc' = [pc EXCEPT ![0] = "gather"]
    /\ UNCHANGED <<world_size, restVars, queues, held, ret, receiver, ncalls, clock, sentTo,
                   delivered, local_data, ar_result>>

\* line 58-59, rank 0: receive(0, r) has returned; total += data; the loop goes
\* on with receive(0, r + 1) or ends and the broadcast loop of line 65 starts
RootAccumulate ==
    /\ pc[0] = "gather"
    /\ rpc[0] = "idle"
    /\ Broadcastable(total, ret[0])
    /\ total' = VecAdd(total, ret[0])
    /\ local_data' = IF total_obj = "local_data"
                     THEN [local_data EXCEPT ![0] = VecAdd(total, ret[0])]
                     ELSE local_data
    /\ IF loop_r < GatherLast
       THEN /\ loop_r' = loop_r + 1
            /\ rpc' = CallReceive(rpc, 0, loop_r + 1)
            /\ rsrc' = [rsrc EXCEPT ![0] = loop_r + 1]
            /\ UNCHANGED pc
       ELSE /\ loop_r' = 1
            /\ pc' = [pc EXCEPT ![0] = "bcast"]
            /\ UNCHANGED <<rpc, rsrc>>
    /\ UNCHANGED <<world_size, restVars, queues, held, ret, receiver, ncalls, clock, sentTo,
                   delivered, total_obj, ar_result>>

\* line 65-67, rank 0: send(total, 0, r) for r in range(1, world_size), then
\* return total
RootBroadcast ==
    /\ pc[0] = "bcast"
    /\ send(total, 0, loop_r)
    /\ IF loop_r < GatherLast
       THEN /\ loop_r' = loop_r + 1
            /\ UNCHANGED <<pc, ar_result>>
       ELSE /\ pc' = [pc EXCEPT ![0] = "done"]
            /\ ar_result' = [ar_result EXCEPT ![0] = total]
            /\ UNCHANGED loop_r
    /\ UNCHANGED <<world_size, restVars, rpc, rsrc, held, ret, receiver, ncalls, clock,
                   delivered, local_data, total, total_obj>>

\* line 61-62, rank # 0: send(local_data, rank, 0), then receive(rank, 0) is entered
WorkerSend(rank) ==
    /\ rank # 0
    /\ pc[rank] = "start"
    /\ send(local_data[rank], rank, 0)
    /\ rpc' = CallReceive(rpc, rank, 0)
    /\ rsrc' = [rsrc EXCEPT ![rank] = 0]
    /\ pc' = [pc EXCEPT ![rank] = "wait"]
    /\ UNCHANGED <<world_size, restVars, held, ret, receiver, ncalls, clock, delivered,
                   local_data, total, total_obj, loop_r, ar_result>>

\* line 62, rank # 0: return self.receive(rank, 0)
WorkerReturn(rank) ==
    /\ rank # 0
    /\ pc[rank] = "wait"
    /\ rpc[rank] = "idle"
    /\ ar_result' = [ar_result EXCEPT ![rank] = ret[rank]]
    /\ pc' = [pc EXCEPT ![rank] = "done"]
    /\ UNCHANGED <<world_size, restVars, fabricVars, local_data, total, total_obj, loop_r>>

ARRecvGet(rank) == RecvGet(rank) /\ UNCHANGED <<world_size, restVars, receiver, ncalls, arVars>>

ARRecvPut(rank) == RecvPut(rank) /\ UNCHANGED <<world_size, restVars, receiver, ncalls, arVars>>

\* one step of rank's all_reduce_sum call
all_reduce_sum(rank) ==
    \/ rank = 0 /\ RootStart
    \/ rank = 0 /\ RootAccumulate
    \/ rank = 0 /\ RootBroadcast
    \/ WorkerSend(rank)
    \/ WorkerReturn(rank)
    \/ ARRecvGet(rank)
    \/ ARRecvPut(rank)

NextAllReduce ==
    \/ RootStart
    \/ RootAccumulate
    \/ RootBroadcast
    \/ \E r \in Ranks : WorkerSend(r)
    \/ \E r \in Ranks : WorkerReturn(r)
    \/ \E r \in Ranks : ARRecvGet(r)
    \/ \E r \in Ranks : ARRecvPut(r)

SpecAllReduce == InitAllReduce /\ [][NextAllReduce]_vars

\* ---- properties of all_reduce_sum (checked under SpecAllReduce)
RECURSIVE SumEntry(_, _, _)
\* sum over the ranks of S of entry i of f[rank]
SumEntry(f, S, i) ==
    IF S = {} THEN 0
    ELSE LET r == CHOOSE x \in S : TRUE
         IN  f[r][i] + SumEntry(f, S \ {r}, i)

\* the elementwise sum of the world's inputs
InputSum == [i \in 1 .. VecLen |-> SumEntry(local_data, Ranks, i)]

\* rank's all_reduce_sum call has its return value
HasReturned(rank) ==
    \/ pc[rank] = "done"
    \/ rank # 0 /\ pc[rank] = "wait" /\ rpc[rank] = "idle"

\* C1: the value all_reduce_sum returns at any rank, root or not, is the
\* elementwise sum of the inputs of all ranks, in every interleaving.
C1_AllReduceSum ==
    \A r \in Ranks : pc[r] = "done" => ar_result[r] = InputSum

\* every rank of the largest world has returned a sum of several inputs that are
\* not zero
C1_Witness ==
    /\ world_size = MaxWorld
    /\ \A r \in Ranks : pc[r] = "done"
    /\ \E i \in 1 .. VecLen : InputSum[i] >= 2
    /\ \E r \in Ranks \ {0} : ar_result[r] # local_data[r]

\* C8: all_reduce_sum is a barrier: when a rank other than 0 has its return
\* value, every rank has sent its contribution and rank 0 has left its gather
\* loop, having added the contribution of every other rank to its own.
C8_Barrier ==
    \A r \in Ranks \ {0} :
        HasReturned(r) =>
            /\ \A q \in Ranks \ {0} : pc[q] # "start"
            /\ pc[0] \in {"bcast", "done"}
            /\ Len(delivered[0]) = world_size - 1
            /\ {delivered[0][i][1] : i \in DOMAIN delivered[0]} = Ranks \ {0}

\* a rank has returned while rank 0 is still broadcasting to the others
C8_Witness ==
    /\ world_size = MaxWorld
    /\ pc[0] = "bcast"
    /\ \E r \in Ranks \ {0} : pc[r] = "done"
    /\ \E r \in Ranks \ {0} : pc[r] = "wait" /\ rpc[r] = "get"

\* the number of contributions rank 0 has added to its own
Accumulated ==
    IF pc[0] = "start" THEN 0
    ELSE IF pc[0] = "gather" THEN loop_r - 1
    ELSE world_size - 1

\* C30: rank 0 adds the other ranks' contributions in rank order 1, 2, ..., W-1,
\* whatever order they arrived in: the k-th value its receive calls returned is
\* the contribution of rank k, its accumulator is the sum of its own input and
\* of the inputs of the ranks 1..k added so far, each once, and a rank holds a
\* message of rank 0 only when the last contribution has been added.
C30_GatherInRankOrder ==
    /\ \A i \in DOMAIN delivered[0] :
           /\ delivered[0][i][1] = i
           /\ delivered[0][i][2] = local_data[i]
    /\ Len(delivered[0]) \in {Accumulated, Accumulated + 1}
    /\ pc[0] # "start" =>
           total = [i \in 1 .. VecLen |-> SumEntry(local_data, 0 .. Accumulated, i)]
    /\ \A r \in Ranks \ {0} :
           (\E m \in sentTo[r] : m[1] = 0) =>
               /\ Accumulated = world_size - 1
               /\ Len(delivered[0]) = world_size - 1
               /\ \A m \in sentTo[r] : m = <<0, InputSum>>

\* rank 2's contribution arrived first: rank 0, waiting for rank 1's, has taken
\* it out of its mailbox and has not added it
C30_Witness ==
    /\ world_size = MaxWorld
    /\ pc[0] = "gather"
    /\ rsrc[0] = 1
    /\ rpc[0] = "put"
    /\ held[0] = <<2, local_data[2]>>
    /\ total = local_data[0]

\* ---- fully sequential execution: the calls run one at a time on one thread,
\* a rank's call starts only when no other call is running
InCall(rank) == pc[rank] \notin {"start", "done"}

NextSequential ==
    \E r \in Ranks :
        /\ \A q \in Ranks \ {r} : ~InCall(q)
        /\ all_reduce_sum(r)

SpecSequential == InitAllReduce /\ [][NextSequential]_vars

\* C9: run one at a time on a single thread, every all_reduce_sum call returns,
\* and returns the sum: the run goes on until every rank holds the sum.
C9_SequentialReturns ==
    \/ \A r \in Ranks : pc[r] = "done" /\ ar_result[r] = InputSum
    \/ ENABLED NextSequential

\* ------------------------------------------------- example_ring_allreduce
\* The ring all-reduce of lines 428-468: two loop nests over (step, rank) that
\* sweep the ranks in place; one action is one execution of an inner loop body.
RingSum == [i \in 1 .. gradient_size |-> SumEntry(gradients, Ranks, i)]

\* line 429
chunk_size == gradient_size \div world_size

\* line 439 / 456
recv_from(rank) == (rank - 1 + world_size) % world_size

\* (variant of ReduceScatterChunk: every rank works on the chunk of the step)
ReduceScatterChunkOfStep(rank, st) == st % world_size
\* (variant of ReduceScatterChunk: the chunk index of the all-gather loop)
ReduceScatterChunkNext(rank, st) == (rank - st + 1 + world_size) % world_size
\* line 441
ReduceScatterChunk(rank, st) == (rank - st + world_size) % world_size

\* line 458
AllGatherChunk(rank, st) == (rank - st + 1 + world_size) % world_size

\* (variant of ChunkStart: a chunk starts one entry late)
ChunkStartLate(chunk_idx) == chunk_idx * chunk_size + 1
\* line 442 / 459
ChunkStart(chunk_idx) == chunk_idx * chunk_size

\* (variant of ChunkEnd: the last chunk is cut like the others)
ChunkEndNoRemainder(chunk_idx) == (chunk_idx + 1) * chunk_size
\* line 443 / 460: the last chunk runs to the end of the vector
ChunkEnd(chunk_idx) ==
    IF chunk_idx < world_size - 1 THEN (chunk_idx + 1) * chunk_size
    ELSE gradient_size

\* entry i (counted from 1) lies in the Python slice [start:end] of chunk_idx
InChunk(i, chunk_idx) == ChunkStart(chunk_idx) < i /\ i <= ChunkEnd(chunk_idx)

\* line 446: intermediate[rank][start:end] += intermediate[recv_from][start:end]
AccumulateChunk(buf, rank, chunk_idx) ==
    [buf EXCEPT ![rank] =
        [i \in 1 .. gradient_size |->
            IF InChunk(i, chunk_idx) THEN buf[rank][i] + buf[recv_from(rank)][i]
            ELSE buf[rank][i]]]

\* line 462: result[rank][start:end] = result[recv_from][start:end]
CopyChunk(buf, rank, chunk_idx) ==
    [buf EXCEPT ![rank] =
        [i \in 1 .. gradient_size |->
            IF InChunk(i, chunk_idx) THEN buf[recv_from(rank)][i]
            ELSE buf[rank][i]]]

\* (variant of LastIteration: the outer loop runs world_size times)
LastIterationLate == step = world_size - 1 /\ rank_i = world_size - 1
\* the (step, rank) loop nest is at its last iteration
LastIteration == step = world_size - 2 /\ rank_i = world_size - 1

\* for step in range(world_size - 1): for rank in range(world_size)
NextIteration ==
    IF rank_i < world_size - 1
    THEN rank_i' = rank_i + 1 /\ step' = step
    ELSE rank_i' = 0 /\ step' = step + 1

\* lines 413-435: the gradients are given, intermediate is a copy of them
InitRing ==
    /\ world_size \in 2 .. MaxWorld
    /\ InitFabric
    /\ NoFedLocal
    /\ NoRounds
    /\ NoStall
    /\ NoFrames
    /\ NoChunks
    /\ NoPSLoop
    /\ NoRuns
    /\ NoPartition
    /\ NoError
    /\ receiver = 0
    /\ NoAllReduce
    /\ NoParameterServer
    /\ NoDataParallel
    /\ NoFederated
    /\ NoBroadcast
    /\ gradient_size \in 1 .. MaxGradientSize
    /\ gradients \in [Ranks -> VectorsOfLen(gradient_size)]
    /\ intermediate = gradients
    /\ at_step = gradients
    /\ result = None
    /\ phase = "reduce_scatter"
    /\ step = 0
    /\ rank_i = 0
    /\ transfers = 0

\* lines 436-446, and line 452 once the loop nest has ended
ReduceScatterStep ==
    /\ phase = "reduce_scatter"
    /\ LET buf == AccumulateChunk(intermediate, rank_i, ReduceScatterChunk(rank_i, step))
       IN  /\ intermediate' = buf
           /\ at_step' = IF rank_i = world_size - 1 THEN buf ELSE at_step
           /\ IF LastIteration
              THEN /\ result' = buf
                   /\ phase' = "all_gather"
                   /\ step' = 0
                   /\ rank_i' = 0
              ELSE /\ NextIteration
                   /\ UNCHANGED <<result, phase>>
    /\ transfers' = transfers + 1
    /\ UNCHANGED <<world_size, fabricVars, arVars, errVars, extVars, psVars, dpVars,
                   fedVars, bcVars,
                   gradient_size, gradients>>

\* lines 453-462
AllGatherStep ==
    /\ phase = "all_gather"
    /\ result' = CopyChunk(result, rank_i, AllGatherChunk(rank_i, step))
    /\ at_step' = IF rank_i = world_size - 1 THEN result' ELSE at_step
    /\ IF LastIteration
       THEN /\ phase' = "done"
            /\ UNCHANGED <<step, rank_i>>
       ELSE /\ NextIteration
            /\ UNCHANGED phase
    /\ transfers' = transfers + 1
    /\ UNCHANGED <<world_size, fabricVars, arVars, errVars, extVars, psVars, dpVars,
                   fedVars, bcVars,
                   gradient_size, gradients,
                   intermediate>>

NextRing == ReduceScatterStep \/ AllGatherStep

SpecRing == InitRing /\ [][NextRing]_vars

\* in a step no rank reads the chunk its predecessor writes
ReadsApartFromWrites ==
    \A rank \in Ranks : \A st \in 0 .. world_size - 2 :
        /\ ReduceScatterChunk(rank, st) # ReduceScatterChunk(recv_from(rank), st)
        /\ AllGatherChunk(rank, st) # AllGatherChunk(recv_from(rank), st)

\* what an inner loop body writes is what it would write if every rank still held
\* the buffer the outer step began with
WritesAsIfSimultaneous ==
    /\ phase = "reduce_scatter" =>
           intermediate'[rank_i] =
               AccumulateChunk(at_step, rank_i, ReduceScatterChunk(rank_i, step))[rank_i]
    /\ phase = "all_gather" =>
           result'[rank_i] = CopyChunk(at_step, rank_i, AllGatherChunk(rank_i, step))[rank_i]

\* C34: the sweep over the ranks 0..W-1, done in place and one rank after the
\* other, is a simultaneous exchange: in every step of both phases the chunk a
\* rank reads from its predecessor is not the chunk the predecessor writes in
\* that step, so every read sees the value the predecessor had when the step
\* began, for every W >= 2.
C34_SweepIsSimultaneous ==
    /\ []ReadsApartFromWrites
    /\ [][WritesAsIfSimultaneous]_vars

\* the all-gather is in its second step and ranks before the current one have
\* written in this step
C34_Witness ==
    /\ world_size = MaxWorld
    /\ phase = "all_gather"
    /\ step >= 1
    /\ rank_i >= 1
    /\ result # at_step

\* C2: after both phases of the ring all-reduce the result vector of every rank,
\* not only of rank 0, is the elementwise sum of the inputs, also when the
\* length is not a multiple of the world size.
C2_RingResultIsSum ==
    phase = "done" => \A r \in Ranks : result[r] = RingSum

\* a finished run of the largest world on a length the world size does not
\* divide, with an entry to which two ranks contribute
C2_Witness ==
    /\ phase = "done"
    /\ world_size = MaxWorld
    /\ gradient_size > world_size
    /\ gradient_size % world_size # 0
    /\ \E i \in 1 .. gradient_size : RingSum[i] >= 2
    /\ \A r \in Ranks : result[r] = RingSum /\ result[r] # gradients[r]

\* ------------------------------------------------------- ParameterServer
\* The store of example_parameter_server, used by workers that fetch and push in
\* any order.  Arrays hold whole numbers.
\* param_shapes, line 286-289: 'W' has n_features entries, 'b' has one
ParamKeys == {"W", "b"}

param_shape(key) == IF key = "W" THEN VecLen ELSE 1

\* the all-zero gradient
ZeroGradient == [k \in ParamKeys |-> [i \in 1 .. param_shape(k) |-> 0]]

\* the gradients a worker may push: one array per parameter name, at most one
\* entry of one array not zero
Gradients ==
    UNION {{[ZeroGradient EXCEPT ![k][i] = v] :
               i \in 1 .. param_shape(k), v \in 0 .. MaxVal} : k \in ParamKeys}

\* entrywise sum of two gradients
GradientSum(a, b) == [k \in ParamKeys |-> [i \in DOMAIN a[k] |-> a[k][i] + b[k][i]]]

\* __init__, line 269-272
InitParameterServer ==
    /\ params = [k \in ParamKeys |-> [i \in 1 .. param_shape(k) |-> 0]]
    /\ version = 0
    /\ update_count = 0

\* The array objects of the store.  __init__ creates one array per name, and
\* update() changes it in place (ndarray -=), so a name stays bound to the array
\* created for it: the array is identified by that name, and params[a] is the
\* content of array a.
ArrayOf(key) == key

\* (variant of get_parameters: the version returned is the one before)
get_parameters_stale == version - 1
\* get_parameters, line 274-275: the version returned with the snapshot
get_parameters == version

\* get_parameters, line 275: self.params.copy(), a new dict with the same
\* bindings, i.e. it shares the array objects of the store
params_copy == [k \in ParamKeys |-> ArrayOf(k)]

\* the content of a dict returned by get_parameters: a binding is an array
\* object of the store
Contents(d) == [k \in ParamKeys |-> params[d[k]]]

\* (variant of update: version is not incremented)
updateKeepsVersion(gradients_, lr) ==
    /\ params' = [k \in ParamKeys |->
                     [i \in DOMAIN params[k] |-> params[k][i] - lr * gradients_[k][i]]]
    /\ version' = version
    /\ update_count' = update_count + 1

\* (variant of update: the array named 'b' is left as it is)
updateSkipsBias(gradients_, lr) ==
    /\ params' = [k \in ParamKeys |->
                     [i \in DOMAIN params[k] |->
                         IF k = "b" THEN params[k][i] ELSE params[k][i] - lr * gradients_[k][i]]]
    /\ version' = version + 1
    /\ update_count' = update_count + 1

\* update, line 277-281
update(gradients_, lr) ==
    /\ params' = [k \in ParamKeys |->
                     [i \in DOMAIN params[k] |-> params[k][i] - lr * gradients_[k][i]]]
    /\ version' = version + 1
    /\ update_count' = update_count + 1

InitPS ==
    /\ world_size = FreeWorld
    /\ InitFabric
    /\ NoFedLocal
    /\ NoRounds
    /\ NoStall
    /\ NoFrames
    /\ NoChunks
    /\ NoPSLoop
    /\ NoRuns
    /\ NoPartition
    /\ NoError
    /\ receiver = 0
    /\ NoAllReduce
    /\ NoRing
    /\ InitParameterServer
    /\ NoDataParallel
    /\ NoFederated
    /\ NoBroadcast
    /\ lr_run \in 1 .. MaxLr
    /\ fetched = [w \in Ranks |-> -1]
    /\ snapshot = [w \in Ranks |-> None]
    /\ seen = [w \in Ranks |-> None]
    /\ n_updates = 0
    /\ grad_sum = ZeroGradient

\* line 319: params, version = ps.get_parameters()
WorkerFetch(w) ==
    /\ fetched' = [fetched EXCEPT ![w] = get_parameters]
    /\ snapshot' = [snapshot EXCEPT ![w] = params_copy]
    /\ seen' = [seen EXCEPT ![w] = Contents(params_copy)]
    /\ UNCHANGED <<world_size, fabricVars, arVars, errVars, extVars, ringVars, dpVars,
                   fedVars, bcVars,
                   params, version,
                   update_count, lr_run, n_updates, grad_sum>>

\* line 321-329: the worker has fetched; it computes some gradients and calls
\* ps.update(gradients, lr=...)
WorkerPush(w, gradients_) ==
    /\ fetched[w] # -1
    /\ n_updates < MaxUpdates
    /\ n_updates' = n_updates + 1
    /\ update(gradients_, lr_run)
    /\ grad_sum' = GradientSum(grad_sum, gradients_)
    /\ UNCHANGED <<world_size, fabricVars, arVars, errVars, extVars, ringVars, dpVars,
                   fedVars, bcVars,
                   lr_run, fetched, snapshot,
                   seen>>

NextPS ==
    \/ \E w \in Ranks : WorkerFetch(w)
    \/ \E w \in Ranks, g \in Gradients : WorkerPush(w, g)

SpecPS == InitPS /\ [][NextPS]_vars

\* C10: after N update() calls, by whichever workers and in whichever order,
\* version = N and update_count = N (so version = update_count throughout and
\* version never decreases).
C10_MonotonicVersioning ==
    /\ version = n_updates
    /\ update_count = n_updates

\* all updates are in, pushed while one worker still held an older version and
\* another had never fetched
C10_Witness ==
    /\ n_updates = MaxUpdates
    /\ version = MaxUpdates
    /\ \E w \in Ranks : fetched[w] > 0 /\ fetched[w] < version
    /\ \E k \in ParamKeys : \E i \in DOMAIN params[k] : params[k][i] < 0

\* C26: update() subtracts lr * gradient[k] from every array k of the store, once,
\* and changes nothing else of an array: after the updates g_1..g_N, in whichever
\* order they were called, each array is its initial value (zero) minus lr times
\* the sum of the g_i.
C26_UpdateSubtractsEach ==
    \A k \in ParamKeys :
        /\ DOMAIN params[k] = 1 .. param_shape(k)
        /\ \A i \in DOMAIN params[k] : params[k][i] = 0 - lr_run * grad_sum[k][i]

\* several updates are in and both arrays have changed
C26_Witness ==
    /\ n_updates >= 2
    /\ params["W"][1] < 0
    /\ params["b"][1] < 0

\* C11: get_parameters() hands out a read-only copy: the snapshot a worker got
\* with version v still holds the values of version v, however many update()
\* calls the store has served since.
C11_SnapshotKept ==
    \A w \in Ranks : fetched[w] # -1 => Contents(snapshot[w]) = seen[w]

\* ------------------------------------------ example_data_parallel_training
\* The training loop of lines 154-173, run by one thread: every rank's backward(),
\* the averaging of the gradients, every model's apply_gradients().  An array is
\* one number.  Gradients are whole numbers, a mean is the fraction num / den, and
\* a model parameter p stands for p * lr / world_size, so that the step
\* lr * mean of line 138-141 is a whole number of these units.
ModelKeys == {"W1", "b1", "W2", "b2"}

\* SimpleNeuralNet.__init__, line 110-113: W1 and W2 are drawn from the random
\* generator (each model draws its own), b1 and b2 are zero; the draws explored
\* have at most one of W1, W2 not zero
InitialModels ==
    {[k \in ModelKeys |-> IF k = j THEN v ELSE 0] : j \in {"W1", "W2"}, v \in 0 .. MaxVal}

\* the dicts backward() may return (line 135); the ones explored hold the same
\* number under every name
Grads == {[k \in ModelKeys |-> v] : v \in 0 .. MaxVal}

RECURSIVE SeqSum(_)
\* sum of a list of numbers
SeqSum(xs) == IF xs = <<>> THEN 0 ELSE Head(xs) + SeqSum(Tail(xs))

\* (variant of np_mean: the first element of the list is left out of the sum)
np_mean_skip_first(xs) == [num |-> SeqSum(Tail(xs)), den |-> Len(xs)]
\* np.mean(list, axis=0), line 165-168: the sum of the list over its length
np_mean(xs) == [num |-> SeqSum(xs), den |-> Len(xs)]

\* [g[k] for g in local_gradients]
Column(gs, k) == [i \in DOMAIN gs |-> gs[i][k]]

\* lr * grads[k], in units of lr / world_size
Step(g) == (g.num * world_size) \div g.den

\* apply_gradients, line 137-141
apply_gradients(model, grads_) == [k \in ModelKeys |-> model[k] - Step(grads_[k])]

\* (variant of ComputeLast: the gradient loop stops one rank early)
ComputeLastShort == world_size - 2
\* line 157, range(world_size): the last rank of the gradient loop
ComputeLast == world_size - 1

\* line 172, for model in models: the position of the last model
ApplyLast == world_size - 1

\* line 148: one model per rank
InitDataParallel ==
    /\ world_size = FreeWorld
    /\ InitFabric
    /\ NoFedLocal
    /\ NoRounds
    /\ NoStall
    /\ NoFrames
    /\ NoChunks
    /\ NoPSLoop
    /\ NoRuns
    /\ NoPartition
    /\ NoError
    /\ receiver = 0
    /\ NoAllReduce
    /\ NoRing
    /\ NoParameterServer
    /\ NoFederated
    /\ NoBroadcast
    /\ models \in [Ranks -> InitialModels]
    /\ local_gradients = <<>>
    /\ global_gradients = None
    /\ epoch = 0
    /\ dp_pc = "compute"
    /\ dp_rank = 0
    /\ n_computed = [r \in Ranks |-> 0]
    /\ n_applied = [r \in Ranks |-> 0]
    /\ applied = [r \in Ranks |-> None]

\* line 156-161: grads = models[rank].backward(...); local_gradients.append(grads)
\* (line 156 empties the list before the first rank's turn)
DPCompute(grads) ==
    /\ dp_pc = "compute"
    /\ local_gradients' = Append(IF dp_rank = 0 THEN <<>> ELSE local_gradients, grads)
    /\ n_computed' = [n_computed EXCEPT ![dp_rank] = @ + 1]
    /\ IF dp_rank < ComputeLast
       THEN /\ dp_rank' = dp_rank + 1
            /\ UNCHANGED dp_pc
       ELSE /\ dp_rank' = 0
            /\ dp_pc' = "aggregate"
    /\ UNCHANGED <<world_size, fabricVars, arVars, errVars, extVars, ringVars, psVars,
                   fedVars, bcVars, models,
                   global_gradients, epoch, n_applied, applied>>

\* line 164-169
DPAggregate ==
    /\ dp_pc = "aggregate"
    /\ global_gradients' = [k \in ModelKeys |-> np_mean(Column(local_gradients, k))]
    /\ dp_pc' = "apply"
    /\ UNCHANGED <<world_size, fabricVars, arVars, errVars, extVars, ringVars, psVars,
                   fedVars, bcVars, models,
                   local_gradients, epoch, dp_rank, n_computed, n_applied, applied>>

\* line 172-173: model.apply_gradients(global_gradients, lr=0.1); after the last
\* model the epoch ends and the next one begins, if there is one
DPApply ==
    /\ dp_pc = "apply"
    /\ models' = [models EXCEPT ![dp_rank] = apply_gradients(@, global_gradients)]
    /\ applied' = [applied EXCEPT ![dp_rank] = global_gradients]
    /\ n_applied' = [n_applied EXCEPT ![dp_rank] = @ + 1]
    /\ IF dp_rank < ApplyLast
       THEN /\ dp_rank' = dp_rank + 1
            /\ UNCHANGED <<dp_pc, epoch>>
       ELSE /\ dp_rank' = 0
            /\ epoch' = range_next(epoch)
            /\ dp_pc' = IF range_next(epoch) < MaxEpochs THEN "compute" ELSE "done"
    /\ UNCHANGED <<world_size, fabricVars, arVars, errVars, extVars, ringVars, psVars,
                   fedVars, bcVars,
                   local_gradients,
                   global_gradients, n_computed>>

NextDataParallel ==
    \/ \E g \in Grads : DPCompute(g)
    \/ DPAggregate
    \/ DPApply

SpecDataParallel == InitDataParallel /\ [][NextDataParallel]_vars

\* ---- properties of the data-parallel loop (checked under SpecDataParallel)
\* a round's synchronous update is over: the next round is about to begin or the
\* run has ended
RoundOver == epoch >= 1 /\ (dp_pc = "done" \/ (dp_pc = "compute" /\ dp_rank = 0))

\* C12: after every round's synchronous update, and at the end of the run, all
\* workers hold identical parameters: W1, b1, W2 and b2 are equal for every pair
\* of ranks.
C12_ModelsIdentical ==
    RoundOver => \A r, q \in Ranks : \A k \in ModelKeys : models[r][k] = models[q][k]

\* C13: rounds are separated by a barrier: a worker has applied round n's
\* aggregated gradient only if every worker has computed its round n gradient,
\* and has computed a round n + 1 gradient only if every worker has applied
\* round n's aggregated gradient.
C13_RoundBarrier ==
    \A r, q \in Ranks :
        /\ n_applied[r] <= n_computed[q]
        /\ n_computed[r] <= n_applied[q] + 1

\* the second round's gradients are being computed: one worker has computed
\* two gradients, another one, all have applied the first round's mean
C13_Witness ==
    /\ dp_pc = "compute"
    /\ epoch = 1
    /\ \E r, q \in Ranks : n_computed[r] = 2 /\ n_computed[q] = 1
    /\ \A r \in Ranks : n_applied[r] = 1

\* the fractions a and b are the same number
SameNumber(a, b) == a.num * b.den = b.num * a.den

\* the mean of the gradients the ranks computed in the current round
RoundMean ==
    [k \in ModelKeys |->
        [num |-> SumEntry([r \in Ranks |-> local_gradients[r + 1]], Ranks, k),
         den |-> world_size]]

\* C14: the gradient a worker applies in a round is the same for all workers and
\* is the elementwise mean of exactly the world_size gradients computed in that
\* round, each counted once.
C14_AppliedIsMean ==
    \A r \in Ranks :
        (n_applied[r] = epoch + 1 \/ (RoundOver /\ n_applied[r] = epoch)) =>
            /\ Len(local_gradients) = world_size
            /\ \A k \in ModelKeys : SameNumber(applied[r][k], RoundMean[k])

\* every worker has applied the mean of a round in which the gradients differ
C14_Witness ==
    /\ RoundOver
    /\ epoch = MaxEpochs
    /\ \E i, j \in DOMAIN local_gradients : local_gradients[i] # local_gradients[j]
    /\ \A r \in Ranks : n_applied[r] = epoch /\ applied[r]["W1"].num > 0

\* ---- further properties of the ring all-reduce (checked under SpecRing)
\* the reduce-scatter loop nest has ended (intermediate is not written afterwards)
ReduceScatterOver == phase \in {"all_gather", "done"}

\* C15: after the world_size - 1 steps of the reduce-scatter phase, chunk r of
\* rank r's vector holds the fully reduced value, the sum over all ranks of that
\* chunk, for every rank r.
C15_OwnChunkReduced ==
    ReduceScatterOver =>
        \A r \in Ranks : \A i \in 1 .. gradient_size :
            InChunk(i, r) => intermediate[r][i] = RingSum[i]

\* the chunk whose fully reduced value rank holds when the reduce-scatter loop
\* nest has ended
ReducedChunkOf(rank) == (rank + 2) % world_size

\* C15 (amended): after the world_size - 1 steps of the reduce-scatter phase,
\* the chunk with index (r + 2) mod world_size of rank r's vector holds the fully
\* reduced value, the sum over all ranks of that chunk, for every rank r.
C15_ShiftedChunkReduced ==
    ReduceScatterOver =>
        \A r \in Ranks : \A i \in 1 .. gradient_size :
            InChunk(i, ReducedChunkOf(r)) => intermediate[r][i] = RingSum[i]

\* the reduce-scatter of the largest world has ended, no chunk is empty, and an
\* entry to which two ranks contribute has been reduced outside the own chunk of
\* the rank that holds it
C15_Witness ==
    /\ phase = "all_gather"
    /\ world_size = MaxWorld
    /\ gradient_size >= world_size
    /\ \E r \in Ranks : \E i \in 1 .. gradient_size :
           /\ InChunk(i, ReducedChunkOf(r))
           /\ ~InChunk(i, r)
           /\ RingSum[i] >= 2
           /\ intermediate[r][i] = RingSum[i]

\* C16: one ring all-reduce performs exactly 2 * W * (W - 1) chunk transfers,
\* whatever the vectors hold: in each of the W - 1 steps of either phase every
\* rank in turn makes one transfer, so W * (W - 1) are made when the
\* reduce-scatter ends and as many again when the all-gather ends.
C16_TransferCount ==
    /\ phase = "reduce_scatter" => transfers = step * world_size + rank_i
    /\ phase = "all_gather" =>
           transfers = world_size * (world_size - 1) + step * world_size + rank_i
    /\ phase = "done" => transfers = 2 * world_size * (world_size - 1)

\* a run of the largest world has ended on vectors that are not all zero
C16_Witness ==
    /\ phase = "done"
    /\ world_size = MaxWorld
    /\ transfers = 2 * MaxWorld * (MaxWorld - 1)
    /\ \E r \in Ranks : \E i \in 1 .. gradient_size : gradients[r][i] # 0

\* ------------------------------------------ example_federated_learning
\* The communication rounds of lines 582-609, run by one thread.  W is one
\* number; a locally trained parameter is a whole number, an aggregated one is
\* the fraction num / den.
n_clients == MaxClients

Clients == 0 .. n_clients - 1

\* the values local training may end with (lines 589-601 start from the global
\* model and take local_epochs gradient steps on the client's data)
ParamValues == {LowParam, HighParam}

\* the whole number v as a fraction
Whole(v) == [num |-> v, den |-> 1]

\* [w * model[j] for w, model in zip(client_weights, client_models)]
Weighted(ws, ms, j) == [i \in 1 .. Len(ms) |-> ws[i] * ms[i][j]]

\* (variant of weighted_average: every client counts the same)
plain_average(ws, ms, j) ==
    [num |-> SeqSum([i \in 1 .. Len(ms) |-> ms[i][j]]), den |-> Len(ms)]
\* line 607-609: total_samples = sum(client_weights);
\* sum(w * model[j] for w, model in zip(...)) / total_samples
weighted_average(ws, ms, j) ==
    [num |-> SeqSum(Weighted(ws, ms, j)), den |-> SeqSum(ws)]

\* lines 563-579: every client has its data, the global model is drawn
InitFederated ==
    /\ world_size = FreeWorld
    /\ InitFabric
    /\ NoFedLocal
    /\ NoRounds
    /\ NoStall
    /\ NoFrames
    /\ NoChunks
    /\ NoPSLoop
    /\ NoRuns
    /\ NoPartition
    /\ NoError
    /\ receiver = 0
    /\ NoAllReduce
    /\ NoRing
    /\ NoParameterServer
    /\ NoDataParallel
    /\ NoBroadcast
    /\ client_data \in [Clients -> 1 .. MaxSamples]
    /\ global_W \in {Whole(v) : v \in ParamValues}
    /\ global_b = Whole(0)
    /\ round_num = 0
    /\ fed_pc = "train"
    /\ client_id = 0
    /\ client_models = <<>>
    /\ client_weights = <<>>

\* lines 583-601: the client trains from the global model and ends with (W, b);
\* its model and its sample count are appended (lines 583-584 empty the lists
\* before the first client's turn)
FedClientTrain(W, b) ==
    /\ fed_pc = "train"
    /\ client_models' = Append(IF client_id = 0 THEN <<>> ELSE client_models, <<W, b>>)
    /\ client_weights' = Append(IF client_id = 0 THEN <<>> ELSE client_weights,
                                client_data[client_id])
    /\ IF client_id < n_clients - 1
       THEN /\ client_id' = client_id + 1
            /\ UNCHANGED fed_pc
       ELSE /\ client_id' = 0
            /\ fed_pc' = "aggregate"
    /\ UNCHANGED <<world_size, fabricVars, arVars, errVars, extVars, ringVars, psVars,
                   dpVars, bcVars,
                   client_data,
                   global_W, global_b, round_num>>

\* lines 606-609, then the next round begins, if there is one
FedAggregate ==
    /\ fed_pc = "aggregate"
    /\ global_W' = weighted_average(client_weights, client_models, 1)
    /\ global_b' = weighted_average(client_weights, client_models, 2)
    /\ round_num' = range_next(round_num)
    /\ fed_pc' = IF range_next(round_num) < MaxRounds THEN "train" ELSE "done"
    /\ UNCHANGED <<world_size, fabricVars, arVars, errVars, extVars, ringVars, psVars,
                   dpVars, bcVars,
                   client_data,
                   client_id, client_models, client_weights>>

NextFederated ==
    \/ \E W \in ParamValues, b \in ParamValues : FedClientTrain(W, b)
    \/ FedAggregate

SpecFederated == InitFederated /\ [][NextFederated]_vars

\* ---- properties of the federated rounds (checked under SpecFederated)
\* a round's aggregation is over
Aggregated == round_num >= 1 /\ (fed_pc = "done" \/ (fed_pc = "train" /\ client_id = 0))

\* sum over the clients of S of sample count times trained parameter j
RECURSIVE ClientSum(_, _)
ClientSum(S, j) ==
    IF S = {} THEN 0
    ELSE LET c == CHOOSE x \in S : TRUE
         IN  client_data[c] * client_models[c + 1][j] + ClientSum(S \ {c}, j)

RECURSIVE SampleSum(_)
\* sum over the clients of S of their sample counts
SampleSum(S) ==
    IF S = {} THEN 0
    ELSE LET c == CHOOSE x \in S : TRUE
         IN  client_data[c] + SampleSum(S \ {c})

\* C17: after each communication round the global parameters are the
\* sample-count-weighted mean sum_i(n_i * params_i) / sum_i(n_i) of the clients'
\* parameters, every client counted once; two clients with 3 and 1 samples and
\* values 2 and 10 give 4.
C17_WeightedAverage ==
    Aggregated =>
        /\ Len(client_models) = n_clients
        /\ global_W.num * SampleSum(Clients) = ClientSum(Clients, 1) * global_W.den
        /\ global_b.num * SampleSum(Clients) = ClientSum(Clients, 2) * global_b.den
        /\ (client_weights = <<3, 1>> /\ client_models[1][1] = 2 /\ client_models[2][1] = 10)
               => global_W.num = 4 * global_W.den

\* the clients with 3 and 1 samples have trained W to 2 and 10, and the round
\* has been aggregated
C17_Witness ==
    /\ Aggregated
    /\ round_num = MaxRounds
    /\ client_weights = <<3, 1>>
    /\ client_models[1][1] = 2
    /\ client_models[2][1] = 10
    /\ global_W.num = 4 * global_W.den

\* ------------------------------------------------------------ broadcast
\* broadcast() calls are made one after the other, by any root, while the ranks
\* receive (without source filter) in their own processes.  The data of a call
\* is its sequence number.  A step of broadcast is one iteration of its loop.
InitBroadcast ==
    /\ world_size = MaxWorld
    /\ InitFabric
    /\ NoFedLocal
    /\ NoRounds
    /\ NoStall
    /\ NoFrames
    /\ NoChunks
    /\ NoPSLoop
    /\ NoRuns
    /\ NoPartition
    /\ NoError
    /\ receiver = 0
    /\ NoAllReduce
    /\ NoRing
    /\ NoParameterServer
    /\ NoDataParallel
    /\ NoFederated
    /\ bc_pc = "idle"
    /\ bc_root = 0
    /\ bc_data = 0
    /\ bc_rank = 0
    /\ bc_ret = 0
    /\ bcasts = <<>>

\* a caller enters broadcast(data, root_rank): the loop of line 47 starts
BcastCall(data, root_rank) ==
    /\ bc_pc = "idle"
    /\ Len(bcasts) < MaxBcasts
    /\ bc_pc' = "loop"
    /\ bc_root' = root_rank
    /\ bc_data' = data
    /\ bc_rank' = 0
    /\ bcasts' = Append(bcasts, <<root_rank, data>>)
    /\ UNCHANGED <<world_size, fabricVars, arVars, errVars, extVars, ringVars, psVars,
                   dpVars, fedVars,
                   bc_ret>>

\* (variant of BcastTarget: the root is sent the data as well)
BcastTargetAny(rank) == TRUE
\* line 48: if rank != root_rank
BcastTarget(rank) == rank # bc_root

\* line 47-50: one iteration of the loop; after the last one, return data
BcastStep ==
    /\ bc_pc = "loop"
    /\ IF BcastTarget(bc_rank)
       THEN send(bc_data, bc_root, bc_rank)
       ELSE UNCHANGED <<queues, sentTo>>
    /\ IF bc_rank < world_size - 1
       THEN /\ bc_rank' = bc_rank + 1
            /\ UNCHANGED <<bc_pc, bc_ret>>
       ELSE /\ bc_pc' = "idle"
            /\ bc_ret' = bc_data
            /\ UNCHANGED bc_rank
    /\ UNCHANGED <<world_size, rpc, rsrc, held, ret, receiver, ncalls, clock, delivered,
                   arVars, errVars, extVars, ringVars, psVars, dpVars, fedVars, bc_root, bc_data,
                   bcasts>>

\* a rank calls receive(rank)
BcCallReceive(rank) ==
    /\ rpc[rank] = "idle"
    /\ ncalls < MaxRecvs
    /\ ncalls' = ncalls + 1
    /\ rpc' = CallReceive(rpc, rank, AnySource)
    /\ rsrc' = [rsrc EXCEPT ![rank] = AnySource]
    /\ UNCHANGED <<world_size, restVars, receiver, queues, held, ret, clock, sentTo,
                   delivered, arVars>>

BcRecvGet(rank) == RecvGet(rank) /\ UNCHANGED <<world_size, restVars, receiver, ncalls, arVars>>

NextBroadcast ==
    \/ \E root_rank \in Ranks : BcastCall(Len(bcasts) + 1, root_rank)
    \/ BcastStep
    \/ \E r \in Ranks : BcCallReceive(r)
    \/ \E r \in Ranks : BcRecvGet(r)

SpecBroadcast == InitBroadcast /\ [][NextBroadcast]_vars

\* ---- properties of broadcast (checked under SpecBroadcast)
\* C18: a broadcast is atomic: in no state has one rank other than the root
\* received the data of a broadcast while the mailbox of another rank other than
\* the root has not been given it yet.
C18_BroadcastAtomic ==
    \A i \in DOMAIN bcasts : \A r, q \in Ranks \ {bcasts[i][1]} :
        bcasts[i] \in Returned(r) => bcasts[i] \in sentTo[q]

\* all that was ever put into the mailbox of rank, in order of arrival (the
\* ranks receive without filter, so what was taken out was at the head)
Arrived(rank) ==
    [i \in DOMAIN delivered[rank] |-> <<delivered[rank][i][1], delivered[rank][i][2]>>]
        \o queues[rank]

\* the broadcast() calls whose loop has passed rank
Passed(rank) ==
    IF bc_pc = "loop" /\ bc_rank <= rank
    THEN SubSeq(bcasts, 1, Len(bcasts) - 1)
    ELSE bcasts

\* C19: broadcast(data, root) puts exactly one (root, data) at the tail of the
\* mailbox of every rank other than root, leaves root's own mailbox and what was
\* queued before alone, and returns data: what has arrived at a rank is, in
\* order, one message for each broadcast of another root that has passed it.
C19_BroadcastFrame ==
    /\ \A d \in Ranks : Arrived(d) = SelectSeq(Passed(d), LAMBDA b : b[1] # d)
    /\ (bc_pc = "idle" /\ bcasts # <<>>) => bc_ret = bcasts[Len(bcasts)][2]

\* two broadcasts of different roots have returned, and a rank has received
\* the first while the second waits in its mailbox
C19_Witness ==
    /\ bc_pc = "idle"
    /\ Len(bcasts) = MaxBcasts
    /\ bcasts[1][1] # bcasts[2][1]
    /\ bc_ret = bcasts[Len(bcasts)][2]
    /\ \E d \in Ranks : delivered[d] # <<>> /\ queues[d] # <<>>
    /\ Len(queues[bcasts[1][1]]) + Len(delivered[bcasts[1][1]]) = 1

\* ---- the frame of send (checked under SpecFree)
\* no receive() has taken anything out of the mailbox of rank
Untouched(rank) == rank # receiver \/ ncalls = 0

\* C20: send(data, source, dest) with dest a rank never blocks or fails, and
\* appends exactly one pair (source, data) at the tail of dest's mailbox, leaving
\* what is queued there and every other mailbox alone: every send is possible,
\* each of the sends made so far is in exactly one mailbox, and a mailbox no
\* receive has touched holds the pairs sent to it, once each, in send order.
C20_SendFrame ==
    /\ clock < MaxSends => \A s, d \in Ranks : ENABLED FreeSend(s, d)
    /\ \A n \in 1 .. clock :
           Cardinality({d \in Ranks : \E s \in Ranks : <<s, n>> \in sentTo[d]}) = 1
    /\ \A d \in Ranks :
           /\ sentTo[d] \subseteq Ranks \X (1 .. clock)
           /\ Untouched(d) =>
                  /\ Len(queues[d]) = Cardinality(sentTo[d])
                  /\ \A i \in DOMAIN queues[d] : queues[d][i] \in sentTo[d]
                  /\ \A i \in DOMAIN queues[d] :
                         i > 1 => queues[d][i - 1][2] < queues[d][i][2]

\* all sends are made, to both mailboxes, from both ranks, and the mailbox of the
\* receiver is as untouched as the other one
C20_Witness ==
    /\ clock = MaxSends
    /\ ncalls = 0
    /\ \A d \in Ranks : queues[d] # <<>>
    /\ \E d \in Ranks : Len(queues[d]) >= 2 /\ queues[d][1][1] # queues[d][2][1]

\* ------------------------------------------ send and receive on any rank
\* Clients call send and receive with rank arguments inside and outside
\* range(world_size).  self.queues is a dict: looking up a key it does not hold
\* raises KeyError, before anything is put or taken.
RankArgs == -1 .. world_size

\* self.queues[rank] finds a queue
HasQueue(rank) == rank \in DOMAIN queues

InitAnyRank ==
    /\ world_size = FreeWorld
    /\ InitFabric
    /\ NoFedLocal
    /\ NoRounds
    /\ NoStall
    /\ NoFrames
    /\ NoChunks
    /\ NoPSLoop
    /\ NoRuns
    /\ NoPartition
    /\ NoError
    /\ receiver = 0
    /\ NoAllReduce
    /\ NoRing
    /\ NoParameterServer
    /\ NoDataParallel
    /\ NoFederated
    /\ NoBroadcast

\* send(data, source_rank, dest_rank), line 35
AnyRankSend(source_rank, dest_rank) ==
    /\ clock < MaxSends
    /\ clock' = clock + 1
    /\ IF HasQueue(dest_rank)
       THEN /\ send(clock + 1, source_rank, dest_rank)
            /\ UNCHANGED error
       ELSE /\ error' = "KeyError"
            /\ UNCHANGED <<queues, sentTo>>
    /\ UNCHANGED <<world_size, rpc, rsrc, held, ret, receiver, ncalls, delivered, arVars,
                   coordVars>>

\* receive(rank), line 39: the lookup of the queue, then get() is entered
AnyRankCallReceive(rank) ==
    /\ ncalls < MaxRecvs
    /\ ncalls' = ncalls + 1
    /\ IF HasQueue(rank)
       THEN /\ rpc[rank] = "idle"
            /\ rpc' = CallReceive(rpc, rank, AnySource)
            /\ UNCHANGED error
       ELSE /\ error' = "KeyError"
            /\ UNCHANGED rpc
    /\ UNCHANGED <<world_size, queues, rsrc, held, ret, receiver, clock, sentTo, delivered,
                   arVars, coordVars>>

AnyRankRecvGet(rank) ==
    RecvGet(rank) /\ UNCHANGED <<world_size, restVars, receiver, ncalls, arVars>>

NextAnyRank ==
    \/ \E s \in Ranks, d \in RankArgs : AnyRankSend(s, d)
    \/ \E r \in RankArgs : AnyRankCallReceive(r)
    \/ \E r \in Ranks : AnyRankRecvGet(r)

SpecAnyRank == InitAnyRank /\ [][NextAnyRank]_vars

\* C21: a send to a destination outside [0, W) and a receive on a rank outside
\* [0, W) fail with the InvalidRank error and leave every mailbox as it was: the
\* error of a failed call is InvalidRank, and the mailboxes hold what the calls
\* on valid ranks sent and have not received yet.
C21_InvalidRankRejected ==
    /\ error # "none" => error = "InvalidRank"
    /\ \A d \in Ranks :
           /\ SeqToSet(queues[d]) \cup Returned(d) = sentTo[d]
           /\ Len(queues[d]) + Len(delivered[d]) = Cardinality(sentTo[d])

\* ------------------------------------- all_reduce_sum on unequal shapes
\* The ranks call all_reduce_sum with vectors that need not have the same
\* length; the vectors explored have one of two lengths and equal entries.
Filled(n) == [i \in 1 .. n |-> MaxVal]

InitShapes ==
    /\ world_size \in 2 .. MaxWorld
    /\ InitFabric
    /\ NoFedLocal
    /\ NoRounds
    /\ NoStall
    /\ NoFrames
    /\ NoChunks
    /\ NoPSLoop
    /\ NoRuns
    /\ NoError
    /\ NoPartition
    /\ receiver = 0
    /\ pc = [r \in Ranks |-> "start"]
    /\ local_data \in [Ranks -> {Filled(VecLen), Filled(VecLen + 1)}]
    /\ total = None
    /\ total_obj = "none"
    /\ loop_r = 0
    /\ ar_result = [r \in Ranks |-> None]
    /\ NoRing
    /\ NoParameterServer
    /\ NoDataParallel
    /\ NoFederated
    /\ NoBroadcast

\* line 59, rank 0: total += data raises ValueError (operands could not be
\* broadcast together); the exception ends rank 0's call
RootAccumulateRaises ==
    /\ pc[0] = "gather"
    /\ rpc[0] = "idle"
    /\ ~Broadcastable(total, ret[0])
    /\ error' = "ValueError"
    /\ pc' = [pc EXCEPT ![0] = "failed"]
    /\ UNCHANGED <<world_size, coordVars, fabricVars, local_data, total, total_obj, loop_r, ar_result>>

NextShapes ==
    \/ NextAllReduce
    \/ RootAccumulateRaises

SpecShapes == InitShapes /\ [][NextShapes]_vars

\* the ranks contribute vectors of different lengths
ShapesDiffer == \E r, q \in Ranks : Len(local_data[r]) # Len(local_data[q])

\* C22: an all_reduce_sum over vectors of different lengths fails with
\* ShapeMismatch, produces no aggregate at any rank and changes no worker's
\* state: no other error is raised, no rank returns, the inputs and the
\* mailboxes stay as they were before the aggregation.
C22_ShapeMismatchRejected ==
    ShapesDiffer =>
        /\ error \in {"none", "ShapeMismatch"}
        /\ \A r \in Ranks :
               /\ pc[r] # "done"
               /\ queues[r] = <<>>
               /\ delivered[r] = <<>>

\* ------------------------------------------------- partitioning the data
\* Lines 93-99 (and, with the same bounds, lines 298-316): the dataset of
\* n_samples samples is cut into one slice per rank, then the training rounds
\* run on the slices.
partition_size == n_samples \div world_size

\* line 97
PartitionStart(rank) == rank * partition_size

\* (variant of PartitionEnd: the last rank ends like the others)
PartitionEndEven(rank) == (rank + 1) * partition_size

\* line 98
PartitionEnd(rank) ==
    IF rank < world_size - 1 THEN (rank + 1) * partition_size ELSE n_samples

InitPartition ==
    /\ world_size \in 1 .. MaxWorld
    /\ InitFabric
    /\ NoFedLocal
    /\ NoRounds
    /\ NoStall
    /\ NoFrames
    /\ NoChunks
    /\ NoPSLoop
    /\ NoRuns
    /\ NoError
    /\ receiver = 0
    /\ NoAllReduce
    /\ NoRing
    /\ NoParameterServer
    /\ NoDataParallel
    /\ NoFederated
    /\ NoBroadcast
    /\ n_samples \in 0 .. MaxNSamples
    /\ partitions = <<>>
    /\ part_pc = "partition"
    /\ part_rank = 0
    /\ rounds_run = 0

\* line 96-99: partitions.append((X[start:end], y[start:end])); after the last
\* rank the training loop is entered
PartitionStep ==
    /\ part_pc = "partition"
    /\ partitions' = Append(partitions, <<PartitionStart(part_rank), PartitionEnd(part_rank)>>)
    /\ IF part_rank < world_size - 1
       THEN /\ part_rank' = part_rank + 1
            /\ UNCHANGED part_pc
       ELSE /\ part_pc' = "train"
            /\ UNCHANGED part_rank
    /\ UNCHANGED <<world_size, fabricVars, arVars, errVars, ringVars, psVars, dpVars, fedVars,
                   bcVars, fedLocalVars, roundsVars, stallVars, frameVars, detVars, psLoopVars, chunkVars,
                   n_samples, rounds_run>>

\* line 154-178: one epoch, every rank working on partitions[rank]
TrainOnPartitions ==
    /\ part_pc = "train"
    /\ rounds_run' = rounds_run + 1
    /\ part_pc' = IF rounds_run + 1 < MaxEpochs THEN "train" ELSE "done"
    /\ UNCHANGED <<world_size, fabricVars, arVars, errVars, ringVars, psVars, dpVars, fedVars,
                   bcVars, fedLocalVars, roundsVars, stallVars, frameVars, detVars, psLoopVars, chunkVars,
                   n_samples, partitions, part_rank>>

NextPartition ==
    \/ PartitionStep
    \/ TrainOnPartitions

SpecPartition == InitPartition /\ [][NextPartition]_vars

\* a rank has been given no sample
EmptyPartition == \E i \in DOMAIN partitions : partitions[i][2] <= partitions[i][1]

\* C23: a partitioning that gives some worker no sample is rejected at partition
\* time: once a worker's partition is empty no round starts.
C23_EmptyPartitionRejected ==
    EmptyPartition => (part_pc \in {"partition", "rejected"} /\ rounds_run = 0)

\* ------------------------------------- two runs of the data-parallel example
\* The whole example, lines 89-173, as one thread executes it, kept twice: run[1]
\* and run[2] are two executions started with the same seed.  The random
\* generator is a counter stepped by a fixed rule, a draw is read off its state.
RngStates == MaxSeed + 1

\* the generator after one draw
Advance(s) == (5 * s + 3) % RngStates

\* the number drawn in state s
randn(s) == s % (MaxVal + 1)

RECURSIVE Draws(_, _)
\* n successive draws, starting in state s
Draws(s, n) == IF n = 0 THEN <<>> ELSE <<randn(s)>> \o Draws(Advance(s), n - 1)

RECURSIVE AfterDraws(_, _)
\* the generator after n draws
AfterDraws(s, n) == IF n = 0 THEN s ELSE AfterDraws(Advance(s), n - 1)

\* (variant of np_random_seed: the generator is seeded differently in each
\* execution)
np_random_seed_per_run(i) == (seed + i) % RngStates
\* line 89, np.random.seed(...): the generator of execution i after seeding
np_random_seed(i) == seed

\* line 122-135, backward(X, y): the gradients are computed from the model's arrays
\* and the worker's partition and from nothing else; the partition is one number
\* x and the arithmetic is that of a linear unit with residual W1 * x + b1 + W2 + b2 - x
backward(model, x) ==
    LET residual == model["W1"] * x + model["b1"] + model["W2"] + model["b2"] - x
    IN  [k \in ModelKeys |-> IF k = "W1" THEN residual * x ELSE residual]

\* line 110-113: W1 and W2 are the next two draws, b1 and b2 are zero
NewModel(s) ==
    [k \in ModelKeys |-> IF k = "W1" THEN randn(s)
                         ELSE IF k = "W2" THEN randn(Advance(s)) ELSE 0]

\* the execution just after line 89
Seeded(s) ==
    [pc |-> "data", rng |-> s, partitions |-> <<>>, models |-> <<>>,
     local_gradients |-> <<>>, global_gradients |-> [k \in ModelKeys |-> np_mean(<<0>>)],
     epoch |-> 0, rank |-> 0, steps |-> 0]

\* line 90-99: the dataset is drawn and cut into one partition per rank
RunData(e) ==
    [e EXCEPT !.pc = "models",
              !.partitions = Draws(e.rng, world_size),
              !.rng = AfterDraws(e.rng, world_size)]

\* line 148: one model per rank, each drawing its own W1 and W2
RunModels(e) ==
    [e EXCEPT !.pc = "compute",
              !.models = [r \in 1 .. world_size |-> NewModel(AfterDraws(e.rng, 2 * (r - 1)))],
              !.rng = AfterDraws(e.rng, 2 * world_size)]

\* line 156-161
RunCompute(e) ==
    [e EXCEPT !.local_gradients =
                  Append(IF e.rank = 0 THEN <<>> ELSE e.local_gradients,
                         backward(e.models[e.rank + 1], e.partitions[e.rank + 1])),
              !.rank = IF e.rank < ComputeLast THEN e.rank + 1 ELSE 0,
              !.pc = IF e.rank < ComputeLast THEN "compute" ELSE "aggregate"]

\* line 164-169
RunAggregate(e) ==
    [e EXCEPT !.global_gradients = [k \in ModelKeys |-> np_mean(Column(e.local_gradients, k))],
              !.pc = "apply"]

\* line 172-173
RunApply(e) ==
    [e EXCEPT !.models[e.rank + 1] = apply_gradients(@, e.global_gradients),
              !.rank = IF e.rank < ApplyLast THEN e.rank + 1 ELSE 0,
              !.epoch = IF e.rank < ApplyLast THEN e.epoch ELSE e.epoch + 1,
              !.pc = IF e.rank < ApplyLast THEN "apply"
                     ELSE IF e.epoch + 1 < MaxEpochs THEN "compute" ELSE "done"]

\* the next statement of an execution
RunNext(e) ==
    CASE e.pc = "data" -> RunData(e)
      [] e.pc = "models" -> RunModels(e)
      [] e.pc = "compute" -> RunCompute(e)
      [] e.pc = "aggregate" -> RunAggregate(e)
      [] e.pc = "apply" -> RunApply(e)

InitRuns ==
    /\ world_size = FreeWorld
    /\ InitFabric
    /\ NoFedLocal
    /\ NoRounds
    /\ NoStall
    /\ NoFrames
    /\ NoChunks
    /\ NoPSLoop
    /\ NoPartition
    /\ NoError
    /\ receiver = 0
    /\ NoAllReduce
    /\ NoRing
    /\ NoParameterServer
    /\ NoDataParallel
    /\ NoFederated
    /\ NoBroadcast
    /\ seed \in 0 .. MaxSeed
    /\ run = [i \in 1 .. 2 |-> Seeded(np_random_seed(i))]

\* execution i executes its next statement
RunStep(i) ==
    /\ run[i].pc # "done"
    /\ run' = [run EXCEPT ![i] = [RunNext(@) EXCEPT !.steps = @ + 1]]
    /\ UNCHANGED <<world_size, fabricVars, arVars, errVars, ringVars, psVars, dpVars, fedVars,
                   bcVars, fedLocalVars, roundsVars, stallVars, frameVars, partVars, psLoopVars, chunkVars, seed>>

NextRuns == \E i \in 1 .. 2 : RunStep(i)

SpecRuns == InitRuns /\ [][NextRuns]_vars

KeyOrder == <<"W", "b">>

\* the positions inside update(), in the order they are passed
UpdateStages == <<"key_W", "key_b", "version", "count">>

\* the key whose array is changed at a position of the loop of line 278
StageKey(stage) == IF stage = "key_W" THEN KeyOrder[1] ELSE KeyOrder[2]

\* the position after a position of update()
NextStage(stage) ==
    CASE stage = "key_W" -> "key_b"
      [] stage = "key_b" -> "version"
      [] stage = "version" -> "count"

\* (variant of Scheduled: the workers run as threads of their own)
ScheduledAny(w) == w \in Ranks
\* line 313, for rank in range(world_size): the body of rank is run from its first
\* statement to its last by the one thread of the program
Scheduled(w) == w = ps_rank

\* the gradients a worker of the loop may compute (line 322-325): one number in
\* every entry of dW, one number in db
LoopGradients ==
    {[k \in ParamKeys |-> [i \in 1 .. param_shape(k) |-> IF k = "W" THEN vW ELSE vb]] :
        vW \in 0 .. MaxVal, vb \in 0 .. MaxVal}

InitPSLoop ==
    /\ world_size = FreeWorld
    /\ InitFabric
    /\ NoFedLocal
    /\ NoRounds
    /\ NoStall
    /\ NoFrames
    /\ NoChunks
    /\ NoRuns
    /\ NoPartition
    /\ NoError
    /\ receiver = 0
    /\ NoAllReduce
    /\ NoRing
    /\ InitParameterServer
    /\ NoDataParallel
    /\ NoFederated
    /\ NoBroadcast
    /\ lr_run = 1
    /\ fetched = [w \in Ranks |-> -1]
    /\ snapshot = [w \in Ranks |-> None]
    /\ seen = [w \in Ranks |-> None]
    /\ n_updates = 0
    /\ grad_sum = ZeroGradient
    /\ ps_pc = "run"
    /\ ps_epoch = 0
    /\ ps_rank = 0
    /\ wpc = [w \in Ranks |-> "idle"]
    /\ wgrad = [w \in Ranks |-> ZeroGradient]

\* line 319: params, version = ps.get_parameters()
LoopFetch(w) ==
    /\ ps_pc = "run"
    /\ Scheduled(w)
    /\ wpc[w] = "idle"
    /\ fetched' = [fetched EXCEPT ![w] = get_parameters]
    /\ snapshot' = [snapshot EXCEPT ![w] = params_copy]
    /\ seen' = [seen EXCEPT ![w] = Contents(params_copy)]
    /\ wpc' = [wpc EXCEPT ![w] = "compute"]
    /\ UNCHANGED <<world_size, fabricVars, arVars, errVars, ringVars, dpVars, fedVars, bcVars, fedLocalVars, roundsVars, stallVars, frameVars,
                   partVars, detVars, chunkVars, params, version, update_count, lr_run,
                   n_updates, grad_sum, ps_pc, ps_epoch, ps_rank, wgrad>>

\* line 322-327: the gradients are computed and ps.update(gradients, lr=0.1) is
\* called
LoopCompute(w, gradients_) ==
    /\ ps_pc = "run"
    /\ wpc[w] = "compute"
    /\ wgrad' = [wgrad EXCEPT ![w] = gradients_]
    /\ n_updates' = n_updates + 1
    /\ wpc' = [wpc EXCEPT ![w] = UpdateStages[1]]
    /\ UNCHANGED <<world_size, fabricVars, arVars, errVars, ringVars, dpVars, fedVars, bcVars, fedLocalVars, roundsVars, stallVars, frameVars,
                   partVars, detVars, chunkVars, params, version, update_count, lr_run,
                   fetched, snapshot, seen, grad_sum, ps_pc, ps_epoch, ps_rank>>

\* line 278-279: self.params[key] -= lr * gradients[key]
UpdateArray(w) ==
    /\ ps_pc = "run"
    /\ wpc[w] \in {"key_W", "key_b"}
    /\ LET key == StageKey(wpc[w])
       IN  params' = [params EXCEPT ![key] =
                         [i \in DOMAIN @ |-> @[i] - lr_run * wgrad[w][key][i]]]
    /\ wpc' = [wpc EXCEPT ![w] = NextStage(@)]
    /\ UNCHANGED <<world_size, fabricVars, arVars, errVars, ringVars, dpVars, fedVars, bcVars, fedLocalVars, roundsVars, stallVars, frameVars,
                   partVars, detVars, chunkVars, version, update_count, lr_run,
                   fetched, snapshot, seen, n_updates, grad_sum, ps_pc, ps_epoch, ps_rank,
                   wgrad>>

\* line 280: self.version += 1
UpdateVersion(w) ==
    /\ ps_pc = "run"
    /\ wpc[w] = "version"
    /\ version' = version + 1
    /\ wpc' = [wpc EXCEPT ![w] = NextStage(@)]
    /\ UNCHANGED <<world_size, fabricVars, arVars, errVars, ringVars, dpVars, fedVars, bcVars, fedLocalVars, roundsVars, stallVars, frameVars,
                   partVars, detVars, chunkVars, params, update_count, lr_run,
                   fetched, snapshot, seen, n_updates, grad_sum, ps_pc, ps_epoch, ps_rank,
                   wgrad>>

\* line 281: self.update_count += 1; update() returns and the loop goes on with
\* the next rank, or with the next epoch, or ends
UpdateCount(w) ==
    /\ ps_pc = "run"
    /\ wpc[w] = "count"
    /\ update_count' = update_count + 1
    /\ grad_sum' = GradientSum(grad_sum, wgrad[w])
    /\ wpc' = [wpc EXCEPT ![w] = "idle"]
    /\ IF ps_rank < world_size - 1
       THEN /\ ps_rank' = range_next(ps_rank)
            /\ UNCHANGED <<ps_epoch, ps_pc>>
       ELSE /\ ps_rank' = 0
            /\ ps_epoch' = range_next(ps_epoch)
            /\ ps_pc' = IF range_next(ps_epoch) < MaxEpochs THEN "run" ELSE "done"
    /\ UNCHANGED <<world_size, fabricVars, arVars, errVars, ringVars, dpVars, fedVars, bcVars, fedLocalVars, roundsVars, stallVars, frameVars,
                   partVars, detVars, chunkVars, params, version, lr_run,
                   fetched, snapshot, seen, n_updates, wgrad>>

NextPSLoop ==
    \/ \E w \in Ranks : LoopFetch(w)
    \/ \E w \in Ranks, g \in LoopGradients : LoopCompute(w, g)
    \/ \E w \in Ranks : UpdateArray(w)
    \/ \E w \in Ranks : UpdateVersion(w)
    \/ \E w \in Ranks : UpdateCount(w)

SpecPSLoop == InitPSLoop /\ [][NextPSLoop]_vars

\* the workers whose update() call has not returned
Updating == {w \in Ranks : wpc[w] \in {"key_W", "key_b", "version", "count"}}

\* update() of worker w has changed the array of key
ArrayDone(w, key) == wpc[w] \in {"version", "count"} \/ (key = "W" /\ wpc[w] = "key_b")

InitCoordinators ==
    \/ InitDataParallel
    \/ InitPSLoop
    \/ InitFederated

NextCoordinators ==
    \/ NextDataParallel
    \/ NextPSLoop
    \/ NextFederated

SpecCoordinators == InitCoordinators /\ [][NextCoordinators]_vars

\* every loop begins with round 0
RoundsStartAtZero == epoch = 0 /\ ps_epoch = 0 /\ round_num = 0

\* the round counter of a loop stays or goes on to the next number
RoundsStep ==
    /\ epoch' \in {epoch, epoch + 1}
    /\ ps_epoch' \in {ps_epoch, ps_epoch + 1}
    /\ round_num' \in {round_num, round_num + 1}

\* a loop has ended exactly when its counter is the configured number of rounds,
\* and the work done is that of the rounds counted, each done once: every model
\* has computed and applied once per epoch, every worker has pushed once per epoch
RoundsCounted ==
    /\ dp_pc # "unused" =>
           /\ epoch \in 0 .. MaxEpochs
           /\ (dp_pc = "done") = (epoch = MaxEpochs)
           /\ \A r \in Ranks :
                  /\ n_computed[r] \in {epoch, epoch + 1}
                  /\ n_applied[r] \in {epoch, epoch + 1}
                  /\ dp_pc = "done" => (n_computed[r] = MaxEpochs /\ n_applied[r] = MaxEpochs)
    /\ ps_pc # "unused" =>
           /\ ps_epoch \in 0 .. MaxEpochs
           /\ (ps_pc = "done") = (ps_epoch = MaxEpochs)
           /\ n_updates - Cardinality(Updating) = ps_epoch * world_size + ps_rank
    /\ fed_pc # "unused" =>
           /\ round_num \in 0 .. MaxRounds
           /\ (fed_pc = "done") = (round_num = MaxRounds)

\* C25: every training loop starts at round 0, goes through the rounds 0, 1, ...,
\* R-1 in that order, none skipped, repeated or reordered, and ends after exactly
\* the configured number R of rounds.
C25_RoundsInOrder ==
    /\ RoundsStartAtZero
    /\ []RoundsCounted
    /\ [][RoundsStep]_vars

\* the data-parallel loop has ended after its last epoch
C25_Witness ==
    /\ dp_pc = "done"
    /\ epoch = MaxEpochs
    /\ \A r \in Ranks : n_applied[r] = MaxEpochs

\* ------------------------------------- a worker's computation raises
\* The data-parallel and the federated loop with one more outcome of a worker's
\* local computation (line 159-160, line 595-601): it raises an exception.  No
\* statement of the loops is inside a try statement.
\* (variant of AfterRaise: the exception is dropped and the loop goes on with the
\* next worker)
SkipWorker(i, last) ==
    [pc |-> IF i < last THEN "work" ELSE "aggregate", i |-> IF i < last THEN i + 1 ELSE 0]
\* where the loop over the workers 0 .. last is after the computation of worker i
\* raised: the exception leaves the loops and the function, the run is over
AfterRaise(i, last) == [pc |-> "aborted", i |-> i]

InitFailures ==
    \/ InitDataParallel
    \/ InitFederated

\* line 159-160: forward() or backward() of models[rank] raises
DPComputeRaises ==
    /\ dp_pc = "compute"
    /\ error' = "Exception"
    /\ LET after == AfterRaise(dp_rank, ComputeLast)
       IN  /\ dp_pc' = IF after.pc = "work" THEN "compute" ELSE after.pc
           /\ dp_rank' = after.i
    /\ UNCHANGED <<world_size, fabricVars, arVars, extVars, ringVars, psVars, fedVars, bcVars,
                   models, local_gradients, global_gradients, epoch, n_computed, n_applied,
                   applied>>

\* line 595-601: the local training of client_id raises
FedTrainRaises ==
    /\ fed_pc = "train"
    /\ error' = "Exception"
    /\ LET after == AfterRaise(client_id, n_clients - 1)
       IN  /\ fed_pc' = IF after.pc = "work" THEN "train" ELSE after.pc
           /\ client_id' = after.i
    /\ UNCHANGED <<world_size, fabricVars, arVars, extVars, ringVars, psVars, dpVars, bcVars,
                   client_data, global_W, global_b, round_num, client_models, client_weights>>

NextFailures ==
    \/ NextDataParallel
    \/ NextFederated
    \/ DPComputeRaises
    \/ FedTrainRaises

SpecFailures == InitFailures /\ [][NextFailures]_vars

\* C28: when a worker's local computation fails in a round the run is aborted:
\* the loop is left and no statement runs any more, so no aggregate is computed
\* without the failed worker, and no model has been updated in that round.
C28_FailureAborts ==
    error # "none" =>
        /\ ~ENABLED NextFailures
        /\ dp_pc # "unused" =>
               /\ dp_pc = "aborted"
               /\ \A r \in Ranks : n_applied[r] = epoch
        /\ fed_pc # "unused" => fed_pc = "aborted"

\* the second worker's computation failed in a later round, after the first
\* worker's gradients were in
C28_Witness ==
    /\ error = "Exception"
    /\ dp_pc = "aborted"
    /\ epoch >= 1
    /\ dp_rank >= 1
    /\ Len(local_gradients) = dp_rank

\* ------------------------------------------------ the chunks of a vector
\* The chunk bounds of lines 429 and 441-443 (458-460), computed for every chunk
\* index of a vector of any length, for any number of workers.
InitChunks ==
    /\ world_size \in 1 .. MaxWorld
    /\ InitFabric
    /\ NoFedLocal
    /\ NoRounds
    /\ NoStall
    /\ NoFrames
    /\ NoPSLoop
    /\ NoRuns
    /\ NoPartition
    /\ NoError
    /\ receiver = 0
    /\ NoAllReduce
    /\ NoParameterServer
    /\ NoDataParallel
    /\ NoFederated
    /\ NoBroadcast
    /\ gradient_size \in 0 .. MaxVectorLength
    /\ gradients = None
    /\ intermediate = None
    /\ result = None
    /\ phase = "chunks"
    /\ step = 0
    /\ rank_i = 0
    /\ transfers = 0
    /\ at_step = None
    /\ chunks = <<>>
    /\ chunk_i = 0

\* line 442-443: start and end of chunk chunk_i
ChunkBounds ==
    /\ phase = "chunks"
    /\ chunk_i < world_size
    /\ chunks' = Append(chunks, <<ChunkStart(chunk_i), ChunkEnd(chunk_i)>>)
    /\ chunk_i' = chunk_i + 1
    /\ UNCHANGED <<world_size, fabricVars, arVars, errVars, ringVars, psVars, dpVars, fedVars,
                   bcVars, fedLocalVars, roundsVars, stallVars, frameVars, partVars, detVars, psLoopVars>>

NextChunks == ChunkBounds

SpecChunks == InitChunks /\ [][NextChunks]_vars

\* the indices of the Python slice [start:end]
Slice(bounds) == {i \in 0 .. gradient_size - 1 : bounds[1] <= i /\ i < bounds[2]}

\* C29: a vector of length L is cut into W contiguous chunks of L // W entries,
\* the last one taking the remainder as well: for every L >= 0 and W >= 1 the
\* chunks are pairwise disjoint and together cover exactly the indices 0 .. L-1.
C29_ChunksPartition ==
    /\ \A c \in DOMAIN chunks :
           /\ chunks[c][1] = (c - 1) * (gradient_size \div world_size)
           /\ c < world_size => chunks[c][2] - chunks[c][1] = gradient_size \div world_size
           /\ c = world_size =>
                  chunks[c][2] - chunks[c][1] =
                      (gradient_size \div world_size) + (gradient_size % world_size)
    /\ \A c, d \in DOMAIN chunks : c # d => Slice(chunks[c]) \cap Slice(chunks[d]) = {}
    /\ Len(chunks) = world_size =>
           UNION {Slice(chunks[c]) : c \in DOMAIN chunks} = 0 .. gradient_size - 1

\* every chunk is cut, of a vector whose length is not a multiple of the number
\* of workers
C29_Witness ==
    /\ world_size = MaxWorld
    /\ Len(chunks) = world_size
    /\ gradient_size % world_size # 0
    /\ gradient_size > world_size

\* ------------------------------- all_reduce_sum, with the frames of receive
\* receive() calls itself after it has put a skipped message back (line 42):
\* every skipped message is one more frame on the stack of the calling rank, and
\* the frames are given back only when the innermost call returns.  The
\* interpreter raises RecursionError when the limit of nested calls is passed;
\* nothing in all_reduce_sum catches it.
\* line 39-40 and 43: as RecvGet; a returned message unwinds every nested call
FramedRecvGet(rank) ==
    /\ RecvGet(rank)
    /\ depth' = [depth EXCEPT ![rank] = IF rpc'[rank] = "idle" THEN 0 ELSE @]
    /\ UNCHANGED <<world_size, receiver, ncalls, arVars, errVars, ringVars, psVars, dpVars,
                   fedVars, bcVars, fedLocalVars, roundsVars, stallVars, partVars, detVars, psLoopVars, chunkVars>>

\* line 41-42: the skipped message is put back and receive is called once more
FramedRecvPut(rank) ==
    /\ depth[rank] < RecursionLimit
    /\ RecvPut(rank)
    /\ depth' = [depth EXCEPT ![rank] = @ + 1]
    /\ UNCHANGED <<world_size, receiver, ncalls, arVars, errVars, ringVars, psVars, dpVars,
                   fedVars, bcVars, fedLocalVars, roundsVars, stallVars, partVars, detVars, psLoopVars, chunkVars>>

\* line 41-42: the skipped message is put back, and the call of line 42 is one too
\* many: RecursionError leaves receive and all_reduce_sum
FramedRecvRaises(rank) ==
    /\ rpc[rank] = "put"
    /\ depth[rank] = RecursionLimit
    /\ queues' = [queues EXCEPT ![rank] = QueuePut(@, held[rank])]
    /\ held' = [held EXCEPT ![rank] = None]
    /\ rpc' = [rpc EXCEPT ![rank] = "raised"]
    /\ pc' = [pc EXCEPT ![rank] = "failed"]
    /\ error' = "RecursionError"
    /\ UNCHANGED <<world_size, rsrc, ret, receiver, ncalls, clock, sentTo, delivered,
                   local_data, total, total_obj, loop_r, ar_result, depth, ringVars, psVars, dpVars,
                   fedVars, bcVars, fedLocalVars, roundsVars, stallVars, partVars, detVars, psLoopVars, chunkVars>>

\* one step of rank's all_reduce_sum call
framed_all_reduce_sum(rank) ==
    \/ rank = 0 /\ RootStart
    \/ rank = 0 /\ RootAccumulate
    \/ rank = 0 /\ RootBroadcast
    \/ WorkerSend(rank)
    \/ WorkerReturn(rank)
    \/ FramedRecvGet(rank)
    \/ FramedRecvPut(rank)
    \/ FramedRecvRaises(rank)

NextFramed ==
    \/ RootStart
    \/ RootAccumulate
    \/ RootBroadcast
    \/ \E r \in Ranks : WorkerSend(r)
    \/ \E r \in Ranks : WorkerReturn(r)
    \/ \E r \in Ranks : FramedRecvGet(r)
    \/ \E r \in Ranks : FramedRecvPut(r)
    \/ \E r \in Ranks : FramedRecvRaises(r)

\* every rank runs in a process of its own: a rank that can take a step takes one
\* in the end
SpecFramedFair ==
    /\ InitAllReduce
    /\ [][NextFramed]_vars
    /\ \A r \in 0 .. MaxWorld - 1 : WF_vars(r \in Ranks /\ framed_all_reduce_sum(r))

\* C31: when all ranks call all_reduce_sum concurrently and every rank that can
\* take a step takes one in the end, every rank returns in the end, also when
\* rank 0 starts waiting for rank r with messages of higher ranks in its mailbox
\* and none of rank r.
C31_AllReturn == <>(\A r \in Ranks : pc[r] = "done")

\* ------------------------------------------ all_reduce_sum, one rank missing
\* The ranks call all_reduce_sum as before, but one of them, stalled, may never
\* do so: its process takes no step.
InitStalled ==
    /\ world_size \in 2 .. MaxWorld
    /\ InitFabric
    /\ NoFedLocal
    /\ NoRounds
    /\ NoFrames
    /\ NoChunks
    /\ NoPSLoop
    /\ NoRuns
    /\ NoPartition
    /\ NoError
    /\ receiver = 0
    /\ pc = [r \in Ranks |-> "start"]
    /\ local_data \in [Ranks -> Vectors]
    /\ total = None
    /\ total_obj = "none"
    /\ loop_r = 0
    /\ ar_result = [r \in Ranks |-> None]
    /\ NoRing
    /\ NoParameterServer
    /\ NoDataParallel
    /\ NoFederated
    /\ NoBroadcast
    /\ stalled \in Ranks \cup {-1}

\* a rank that has entered all_reduce_sum, or enters it, takes a step
NextStalled == \E r \in Ranks : r # stalled /\ all_reduce_sum(r)

SpecStalled == InitStalled /\ [][NextStalled]_vars

\* C32: if one rank, root or not, never enters all_reduce_sum, no rank ever
\* returns from it.
C32_StallStallsAll == stalled \in Ranks => \A r \in Ranks : ~HasReturned(r)

\* rank 1 never calls: rank 2 has sent and waits, rank 0 is in its gather loop with
\* rank 2's message in hand
C32_Witness ==
    /\ world_size = MaxWorld
    /\ stalled = 1
    /\ pc[2] = "wait"
    /\ pc[0] = "gather"
    /\ rpc[0] = "put"

\* ------------------------------------- several all_reduce_sum calls in a row
\* Every rank calls all_reduce_sum MaxCalls times on the same simulator, each rank
\* in its own process and at its own pace.  The input of rank r to its k-th call
\* (counted from 0) holds scale * 2^(k * world_size + r) in every entry, so a sum
\* of inputs tells which inputs went into it.
RoundInput(rank, k, scale) == [i \in 1 .. VecLen |-> scale * 2 ^ (k * world_size + rank)]

\* the scale of the inputs of a run, read off rank 0's current input
InputScale == local_data[0][1] \div 2 ^ (calls[0] * world_size)

InitRounds ==
    /\ world_size \in 2 .. MaxWorld
    /\ InitFabric
    /\ NoFedLocal
    /\ NoStall
    /\ NoFrames
    /\ NoChunks
    /\ NoPSLoop
    /\ NoRuns
    /\ NoPartition
    /\ NoError
    /\ receiver = 0
    /\ pc = [r \in Ranks |-> "start"]
    /\ \E sc \in 1 .. MaxVal + 1 : local_data = [r \in Ranks |-> RoundInput(r, 0, sc)]
    /\ total = None
    /\ total_obj = "none"
    /\ loop_r = 0
    /\ ar_result = [r \in Ranks |-> None]
    /\ NoRing
    /\ NoParameterServer
    /\ NoDataParallel
    /\ NoFederated
    /\ NoBroadcast
    /\ calls = [r \in Ranks |-> 0]
    /\ returns = [r \in Ranks |-> <<>>]

\* rank's call has returned; the rank keeps the value and calls all_reduce_sum
\* again, with its next input
CallAgain(rank) ==
    /\ pc[rank] = "done"
    /\ calls[rank] + 1 < MaxCalls
    /\ returns' = [returns EXCEPT ![rank] = Append(@, ar_result[rank])]
    /\ local_data' = [local_data EXCEPT ![rank] = RoundInput(rank, calls[rank] + 1, InputScale)]
    /\ calls' = [calls EXCEPT ![rank] = @ + 1]
    /\ ar_result' = [ar_result EXCEPT ![rank] = None]
    /\ pc' = [pc EXCEPT ![rank] = "start"]
    /\ UNCHANGED <<world_size, fabricVars, errVars, total, total_obj, loop_r, ringVars, psVars, dpVars,
                   fedVars, bcVars, fedLocalVars, partVars, detVars, psLoopVars, chunkVars, frameVars,
                   stallVars>>

NextRounds ==
    \/ \E r \in Ranks : all_reduce_sum(r)
    \/ \E r \in Ranks : CallAgain(r)

SpecRounds == InitRounds /\ [][NextRounds]_vars

\* the sum of the ranks' inputs to their k-th calls
RoundSum(k) ==
    [i \in 1 .. VecLen |->
        SumEntry([r \in Ranks |-> RoundInput(r, k, InputScale)], Ranks, i)]

\* the number of calls of rank that have returned
Completed(rank) == calls[rank] + (IF pc[rank] = "done" THEN 1 ELSE 0)

\* every rank is between two calls, and all have made the same number of calls
BetweenRounds ==
    /\ \A r \in Ranks : pc[r] \in {"start", "done"}
    /\ \A r, q \in Ranks : Completed(r) = Completed(q)

\* C33: consecutive all_reduce_sum rounds run concurrently never mix: the k-th
\* value returned at every rank is the sum of the ranks' k-th inputs, and when all
\* ranks have completed the same number of rounds (and none is inside a call)
\* every mailbox is empty.
C33_RoundsNeverMix ==
    /\ \A r \in Ranks :
           /\ \A k \in DOMAIN returns[r] : returns[r][k] = RoundSum(k - 1)
           /\ pc[r] = "done" => ar_result[r] = RoundSum(calls[r])
    /\ BetweenRounds => \A r \in Ranks : queues[r] = <<>> /\ held[r] = None

\* a rank is ahead: it has sent its contribution to the second round while rank 0
\* is still sending the total of the first round
C33_Witness ==
    /\ world_size = MaxWorld
    /\ pc[0] = "bcast"
    /\ calls[0] = 0
    /\ \E r \in Ranks \ {0} : calls[r] = 1 /\ pc[r] = "wait" /\ returns[r] = <<RoundSum(0)>>

\* ------------------------------- example_federated_learning, local training
\* The rounds of lines 583-609 with a client's local training followed statement
\* by statement: the client's W and b are bound (line 591-592), local_epochs
\* training steps change them (line 595-601), the result is appended (line
\* 603-604).  W -= ... changes the array the client's W is bound to, in place;
\* b -= ... binds the client's b to a new number.
local_epochs == MaxLocalEpochs

\* (variant of ndarray_copy: the client's W is bound to the global array itself)
ndarray_same == "global"
\* line 591, global_W.copy(): the array the client's W is bound to is a new one
ndarray_copy == "copy"

\* line 591-592: W = global_W.copy(); b = global_b
FedLocalBegin ==
    /\ fed_pc = "train"
    /\ local_W' = global_W
    /\ local_b' = global_b
    /\ local_obj' = ndarray_copy
    /\ local_epoch' = 0
    /\ fed_pc' = "local"
    /\ UNCHANGED <<world_size, fabricVars, arVars, errVars, ringVars, psVars, dpVars, bcVars,
                   partVars, detVars, psLoopVars, chunkVars, frameVars, stallVars, roundsVars,
                   client_data, global_W, global_b, round_num, client_id, client_models,
                   client_weights>>

\* line 595-601: one training step; W and b are the client's parameters after it
FedLocalStep(W, b) ==
    /\ fed_pc = "local"
    /\ local_epoch < local_epochs
    /\ local_W' = Whole(W)
    /\ global_W' = IF local_obj = "global" THEN Whole(W) ELSE global_W
    /\ local_b' = Whole(b)
    /\ local_epoch' = local_epoch + 1
    /\ UNCHANGED <<world_size, fabricVars, arVars, errVars, ringVars, psVars, dpVars, bcVars,
                   partVars, detVars, psLoopVars, chunkVars, frameVars, stallVars, roundsVars,
                   client_data, global_b, round_num, fed_pc, client_id, client_models,
                   client_weights, local_obj>>

\* line 603-604: client_models.append((W, b)); client_weights.append(len(y_client))
FedLocalEnd ==
    /\ fed_pc = "local"
    /\ local_epoch = local_epochs
    /\ client_models' = Append(IF client_id = 0 THEN <<>> ELSE client_models,
                               <<local_W.num, local_b.num>>)
    /\ client_weights' = Append(IF client_id = 0 THEN <<>> ELSE client_weights,
                                client_data[client_id])
    /\ IF client_id < n_clients - 1
       THEN /\ client_id' = client_id + 1
            /\ fed_pc' = "train"
       ELSE /\ client_id' = 0
            /\ fed_pc' = "aggregate"
    /\ UNCHANGED <<world_size, fabricVars, arVars, errVars, ringVars, psVars, dpVars, bcVars,
                   partVars, detVars, psLoopVars, chunkVars, frameVars, stallVars, roundsVars,
                   client_data, global_W, global_b, round_num, fedLocalVars>>

NextFedLocal ==
    \/ FedLocalBegin
    \/ \E W \in ParamValues, b \in ParamValues : FedLocalStep(W, b)
    \/ FedLocalEnd
    \/ FedAggregate

SpecFedLocal == InitFederated /\ [][NextFedLocal]_vars

\* a client about to train holds the global parameters
StartsFromGlobal ==
    (fed_pc = "local" /\ local_epoch = 0) => (local_W = global_W /\ local_b = global_b)

\* a training step of a client leaves everything but the client's own W and b
LocalStepIsLocal ==
    (fed_pc = "local" /\ fed_pc' = "local") =>
        UNCHANGED <<global_W, global_b, client_models, client_weights, round_num, client_data>>

\* the global parameters change only in the aggregation that ends a round, with
\* every client's result in
GlobalChangesAtRoundEnd ==
    (global_W' # global_W \/ global_b' # global_b) =>
        /\ fed_pc = "aggregate"
        /\ Len(client_models) = n_clients
        /\ round_num' = round_num + 1

\* C36: in a federated round every client starts its local training from the
\* global parameters of that round, its training steps change only its own copy,
\* and the global parameters change once per round, after all clients have
\* returned.
C36_LocalTrainingIsLocal ==
    /\ []StartsFromGlobal
    /\ [][LocalStepIsLocal]_vars
    /\ [][GlobalChangesAtRoundEnd]_vars

\* the second client of a later round has finished its training steps, and its
\* parameters are not the global ones
C36_Witness ==
    /\ fed_pc = "local"
    /\ round_num >= 1
    /\ client_id >= 1
    /\ local_epoch = local_epochs
    /\ local_W # global_W

\* ---- the partitions as sets of samples (checked under SpecPartition)
\* the samples of the i-th partition cut so far: X[start:end]
SamplesOf(i) == {k \in 0 .. n_samples - 1 : partitions[i][1] <= k /\ k < partitions[i][2]}

\* every rank has its partition
AllCut == Len(partitions) = world_size

\* the bounds the partition of rank r has for n samples and W ranks
RangeOf(r, n, W) == <<r * (n \div W), IF r = W - 1 THEN n ELSE (r + 1) * (n \div W)>>

\* C37: rank r is given the contiguous range [r * (n // W), (r+1) * (n // W)),
\* the last rank everything up to n; the partitions are pairwise disjoint, in
\* rank order, cover the n samples exactly once, and depend on (n, W) alone.
C37_PartitionsCoverOnce ==
    /\ \A i \in DOMAIN partitions : partitions[i] = RangeOf(i - 1, n_samples, world_size)
    /\ \A i, j \in DOMAIN partitions : i < j =>
           /\ SamplesOf(i) \cap SamplesOf(j) = {}
           /\ \A a \in SamplesOf(i), b \in SamplesOf(j) : a < b
    /\ AllCut =>
           /\ UNION {SamplesOf(i) : i \in DOMAIN partitions} = 0 .. n_samples - 1
           /\ \A k \in 0 .. n_samples - 1 :
                  Cardinality({i \in DOMAIN partitions : k \in SamplesOf(i)}) = 1

\* several ranks, a number of samples they do not divide, every partition cut
\* and trained on
C37_Witness ==
    /\ world_size >= 2
    /\ n_samples > world_size
    /\ n_samples % world_size # 0
    /\ AllCut
    /\ part_pc = "done"

\* ---- the caller's local_data (checked under SpecAllReduce)
\* no step of any rank's call changes a caller's input vector
InputsKept == local_data' = local_data

\* line 67, return total: what rank 0 is handed back is the array total is bound
\* to, and that array is not the caller's
RootReturnsOwnArray == pc[0] = "done" => total_obj # "local_data"

\* C38: all_reduce_sum never modifies the caller's local_data: rank 0 accumulates
\* into a private copy, the other ranks only send their value, and the total
\* returned at rank 0 is not the array that was passed in.
C38_InputUntouched ==
    /\ [][InputsKept]_vars
    /\ []RootReturnsOwnArray

\* every rank has returned, rank 0 with a total that differs from its input,
\* which it still holds
C38_Witness ==
    /\ \A r \in Ranks : pc[r] = "done"
    /\ world_size = MaxWorld
    /\ ar_result[0] # local_data[0]
    /\ total_obj = "copy"

====
